---- MODULE Spec2Model ----
(***************************************************************************)
(* A model of bst-rs (src/src/lib.rs): an unbalanced binary search tree    *)
(* with a recursive and an iterative engine.                               *)
(*                                                                         *)
(* A tree is a record [root, size, heap].  heap maps the identity of every *)
(* live Box<Node<T>> to its Node {value, left, right}; a HeapNode<T>       *)
(* (Option<Box<Node<T>>>) is Nil or the identity of a live box.  A         *)
(* `&mut HeapNode<T>` cursor is a Slot: the tree's root field or the left  *)
(* or right field of a live node.  Option<T> values handed to the caller   *)
(* are sequences of length 0 (None) or 1 (Some); Result<(), ()> is "Ok" or *)
(* "Err"; Vec<&T> is a sequence of values.                                 *)
(***************************************************************************)
EXTENDS Integers, Sequences, FiniteSets, TLC

\* The values offered to insert / remove / contains / retrieve: 1..MaxVal.
MaxVal == 5

Values == 1..MaxVal

\* the values stored when two trees of an engine are followed together
MaxPairVal == 3

PairValues == 1..MaxPairVal

\* the values stored when the loops of the IterativeBST are followed one
\* iteration at a time
MaxLoopVal == 4

LoopValues == 1..MaxLoopVal

VARIABLES
    iterative_bst,   \* the IterativeBST under test
    recursive_bst,   \* the RecursiveBST under test, driven by the same calls
    pre,             \* both trees as they were before the last call
    call,            \* the last public call: name, argument, what each engine returned
    inserted,        \* the values inserted and not removed since (the reference set)
    panicked,        \* an unwrap() met None in some call
    disposal,        \* what the last call did to the boxes it took by value
    iterative_other, \* root and size of a second IterativeBST in the heap of the first
    recursive_other, \* root and size of a second RecursiveBST in the heap of the first
    walk             \* the loop of the IterativeBST call in progress: its local variables

vars == <<iterative_bst, recursive_bst, pre, call, inserted, panicked, disposal,
          iterative_other, recursive_other, walk>>

----------------------------------------------------------------------------
(* Option, boxes and slots *)

Nil == 0

None == << >>

Some(v) == <<v>>

\* Node::new
Node_new(value) == [value |-> value, left |-> Nil, right |-> Nil]

\* IterativeBST::new / RecursiveBST::new
BST_new == [root |-> Nil, size |-> 0, heap |-> << >>]

\* Box::new: the allocator hands out the least identity not in use.
NewBox(heap) ==
    CHOOSE i \in 1..(Cardinality(DOMAIN heap) + 1) :
        /\ i \notin DOMAIN heap
        /\ \A j \in 1..(i - 1) : j \in DOMAIN heap

Alloc(t, id, node) ==
    [t EXCEPT !.heap = [i \in (DOMAIN t.heap) \cup {id} |->
                            IF i = id THEN node ELSE t.heap[i]]]

\* The boxes owned through HeapNode h: h itself and everything below it.
RECURSIVE Owned(_, _)
Owned(heap, h) ==
    IF h = Nil \/ h \notin DOMAIN heap THEN {}
    ELSE {h} \cup Owned(heap, heap[h].left) \cup Owned(heap, heap[h].right)

\* Dropping a HeapNode frees its box and, through the Node's fields, every
\* box still owned by it.
Drop(t, h) ==
    LET gone == Owned(t.heap, h)
    IN  [t EXCEPT !.heap = [i \in (DOMAIN t.heap) \ gone |-> t.heap[i]]]

\* The live boxes under HeapNode h, parent before children, left before right.
RECURSIVE BoxesBelow(_, _)
BoxesBelow(heap, h) ==
    IF h = Nil \/ h \notin DOMAIN heap THEN << >>
    ELSE <<h>> \o BoxesBelow(heap, heap[h].left) \o BoxesBelow(heap, heap[h].right)

RECURSIVE Ascending(_)
Ascending(S) ==
    IF S = {} THEN << >>
    ELSE LET least == CHOOSE x \in S : \A y \in S : x <= y
         IN  <<least>> \o Ascending(S \ {least})

\* The program never observes the address of a box, so between two calls a
\* tree is kept up to the renaming of its boxes: the boxes reachable from the
\* root are named 1, 2, ... parent before children, left before right, then
\* come the live boxes no slot leads to (leaked ones, if any).  A reference to
\* a box that is not live (a dangling one) stays a reference to no live box.
Renamed(t) ==
    LET reach == BoxesBelow(t.heap, t.root)
        inReach == {reach[k] : k \in 1..Len(reach)}
        order == reach \o Ascending((DOMAIN t.heap) \ inReach)
        name(h) == IF h = Nil THEN Nil
                   ELSE IF \E k \in 1..Len(order) : order[k] = h
                        THEN CHOOSE k \in 1..Len(order) : order[k] = h
                        ELSE Len(order) + 1
    IN  [root |-> name(t.root),
         size |-> t.size,
         heap |-> [k \in 1..Len(order) |->
                      [value |-> t.heap[order[k]].value,
                       left |-> name(t.heap[order[k]].left),
                       right |-> name(t.heap[order[k]].right)]]]

\* Two trees of one engine live in one heap, each owning the boxes below its
\* root; the heap is kept with the first tree, and of the second only root
\* and size are kept.  RenamedPair names the boxes of self as Renamed does,
\* then those of other, then the live boxes no slot leads to.
RenamedPair(heap, self, other) ==
    LET first == BoxesBelow(heap, self.root)
        inFirst == {first[k] : k \in 1..Len(first)}
        second == SelectSeq(BoxesBelow(heap, other.root),
                            LAMBDA h : h \notin inFirst)
        inSecond == {second[k] : k \in 1..Len(second)}
        order == first \o second
                 \o Ascending((DOMAIN heap) \ (inFirst \cup inSecond))
        name(h) == IF h = Nil THEN Nil
                   ELSE IF \E k \in 1..Len(order) : order[k] = h
                        THEN CHOOSE k \in 1..Len(order) : order[k] = h
                        ELSE Len(order) + 1
        renamed == [k \in 1..Len(order) |->
                       [value |-> heap[order[k]].value,
                        left |-> name(heap[order[k]].left),
                        right |-> name(heap[order[k]].right)]]
    IN  [self |-> [root |-> name(self.root), size |-> self.size,
                   heap |-> renamed],
         other |-> [root |-> name(other.root), size |-> other.size]]

\* the tree with the root and size of t in the heap
In(t, heap) == [root |-> t.root, size |-> t.size, heap |-> heap]

RootSlot == [node |-> Nil, side |-> "root"]

LeftOf(n) == [node |-> n, side |-> "left"]

RightOf(n) == [node |-> n, side |-> "right"]

\* *slot
Read(t, slot) ==
    CASE slot.side = "root" -> t.root
      [] slot.side = "left" -> t.heap[slot.node].left
      [] OTHER -> t.heap[slot.node].right

\* *slot = h, without dropping what the slot held (the caller moved it out)
Write(t, slot, h) ==
    CASE slot.side = "root" -> [t EXCEPT !.root = h]
      [] slot.side = "left" -> [t EXCEPT !.heap[slot.node].left = h]
      [] OTHER -> [t EXCEPT !.heap[slot.node].right = h]

\* T: Ord on the integers
cmp(a, b) == IF a = b THEN "Equal" ELSE IF a < b THEN "Less" ELSE "Greater"

\* usize arithmetic of the element counter; a negative result is an underflow
usize_add(a, b) == a + b

usize_sub(a, b) == a - b

----------------------------------------------------------------------------
(* Node: insert *)

\* iterative_insert storing the new box in the empty slot it reached and in
\* the other slot of the same node when that one is empty too
RECURSIVE iterative_insert_links_twice(_, _, _)
iterative_insert_links_twice(t, root, value) ==
    LET node == Read(t, root)
    IN  IF node # Nil
        THEN CASE cmp(value, t.heap[node].value) = "Equal" ->
                    [t |-> t, ret |-> "Err"]
               [] cmp(value, t.heap[node].value) = "Less" ->
                    iterative_insert_links_twice(t, LeftOf(node), value)
               [] OTHER ->
                    iterative_insert_links_twice(t, RightOf(node), value)
        ELSE LET id == NewBox(t.heap)
                 t1 == Write(Alloc(t, id, Node_new(value)), root, id)
                 other == IF root.side = "left" THEN RightOf(root.node)
                          ELSE LeftOf(root.node)
             IN  [t |-> IF root.side # "root" /\ Read(t1, other) = Nil
                        THEN Write(t1, other, id) ELSE t1,
                  ret |-> "Ok"]

RECURSIVE iterative_insert(_, _, _)
iterative_insert(t, root, value) ==
    LET node == Read(t, root)
    IN  IF node # Nil
        THEN CASE cmp(value, t.heap[node].value) = "Equal" ->
                    [t |-> t, ret |-> "Err"]
               [] cmp(value, t.heap[node].value) = "Less" ->
                    iterative_insert(t, LeftOf(node), value)
               [] OTHER ->
                    iterative_insert(t, RightOf(node), value)
        ELSE LET id == NewBox(t.heap)
             IN  [t |-> Write(Alloc(t, id, Node_new(value)), root, id),
                  ret |-> "Ok"]

RECURSIVE recursive_insert(_, _, _)
recursive_insert(t, self, value) ==
    CASE cmp(value, t.heap[self].value) = "Equal" ->
            [t |-> t, ret |-> "Err"]
      [] cmp(value, t.heap[self].value) = "Less" ->
            IF t.heap[self].left = Nil
            THEN LET id == NewBox(t.heap)
                 IN  [t |-> Write(Alloc(t, id, Node_new(value)), LeftOf(self), id),
                      ret |-> "Ok"]
            ELSE recursive_insert(t, t.heap[self].left, value)
      [] OTHER ->
            IF t.heap[self].right = Nil
            THEN LET id == NewBox(t.heap)
                 IN  [t |-> Write(Alloc(t, id, Node_new(value)), RightOf(self), id),
                      ret |-> "Ok"]
            ELSE recursive_insert(t, t.heap[self].right, value)

----------------------------------------------------------------------------
(* Node: contains, retrieve, min, max, height *)

RECURSIVE iterative_contains(_, _, _)
iterative_contains(t, root, value) ==
    LET current == Read(t, root)
    IN  IF current # Nil
        THEN CASE cmp(value, t.heap[current].value) = "Equal" -> TRUE
               [] cmp(value, t.heap[current].value) = "Less" ->
                    iterative_contains(t, LeftOf(current), value)
               [] OTHER ->
                    iterative_contains(t, RightOf(current), value)
        ELSE FALSE

RECURSIVE recursive_contains(_, _, _)
recursive_contains(t, self, value) ==
    CASE cmp(value, t.heap[self].value) = "Equal" -> TRUE
      [] cmp(value, t.heap[self].value) = "Less" ->
            IF t.heap[self].left = Nil THEN FALSE
            ELSE recursive_contains(t, t.heap[self].left, value)
      [] OTHER ->
            IF t.heap[self].right = Nil THEN FALSE
            ELSE recursive_contains(t, t.heap[self].right, value)

\* iterative_retrieve descending to the wrong side
RECURSIVE iterative_retrieve_wrong_side(_, _, _)
iterative_retrieve_wrong_side(t, root, value) ==
    LET current == Read(t, root)
    IN  IF current # Nil
        THEN CASE cmp(value, t.heap[current].value) = "Equal" ->
                    Some(t.heap[current].value)
               [] cmp(value, t.heap[current].value) = "Less" ->
                    iterative_retrieve_wrong_side(t, RightOf(current), value)
               [] OTHER ->
                    iterative_retrieve_wrong_side(t, LeftOf(current), value)
        ELSE None

RECURSIVE iterative_retrieve(_, _, _)
iterative_retrieve(t, root, value) ==
    LET current == Read(t, root)
    IN  IF current # Nil
        THEN CASE cmp(value, t.heap[current].value) = "Equal" ->
                    Some(t.heap[current].value)
               [] cmp(value, t.heap[current].value) = "Less" ->
                    iterative_retrieve(t, LeftOf(current), value)
               [] OTHER ->
                    iterative_retrieve(t, RightOf(current), value)
        ELSE None

RECURSIVE recursive_retrieve(_, _, _)
recursive_retrieve(t, self, value) ==
    CASE cmp(value, t.heap[self].value) = "Equal" -> Some(t.heap[self].value)
      [] cmp(value, t.heap[self].value) = "Less" ->
            IF t.heap[self].left = Nil THEN None
            ELSE recursive_retrieve(t, t.heap[self].left, value)
      [] OTHER ->
            IF t.heap[self].right = Nil THEN None
            ELSE recursive_retrieve(t, t.heap[self].right, value)

\* iterative_retrieve_as_mut handing out the value of the first node it meets
iterative_retrieve_as_mut_of_first(t, root, value) ==
    IF Read(t, root) # Nil THEN Some(Read(t, root)) ELSE None

\* The `&mut T` handed out is the value field of a box: Some(box) or None.
RECURSIVE iterative_retrieve_as_mut(_, _, _)
iterative_retrieve_as_mut(t, root, value) ==
    LET current == Read(t, root)
    IN  IF current # Nil
        THEN CASE cmp(value, t.heap[current].value) = "Equal" -> Some(current)
               [] cmp(value, t.heap[current].value) = "Less" ->
                    iterative_retrieve_as_mut(t, LeftOf(current), value)
               [] OTHER ->
                    iterative_retrieve_as_mut(t, RightOf(current), value)
        ELSE None

RECURSIVE recursive_retrieve_as_mut(_, _, _)
recursive_retrieve_as_mut(t, self, value) ==
    CASE cmp(value, t.heap[self].value) = "Equal" -> Some(self)
      [] cmp(value, t.heap[self].value) = "Less" ->
            IF t.heap[self].left = Nil THEN None
            ELSE recursive_retrieve_as_mut(t, t.heap[self].left, value)
      [] OTHER ->
            IF t.heap[self].right = Nil THEN None
            ELSE recursive_retrieve_as_mut(t, t.heap[self].right, value)

\* what the caller sees through an Option<&mut T>
Deref(t, reference) ==
    IF reference = None THEN None ELSE Some(t.heap[reference[1]].value)

\* `*reference.unwrap() = value`, made by the caller
WriteThrough(t, reference, value) ==
    [t EXCEPT !.heap[reference[1]].value = value]

RECURSIVE iterative_min(_, _)
iterative_min(t, root) ==
    LET current == Read(t, root)
    IN  IF current # Nil
        THEN IF t.heap[current].left = Nil
             THEN Some(t.heap[current].value)
             ELSE iterative_min(t, LeftOf(current))
        ELSE None

RECURSIVE recursive_min(_, _)
recursive_min(t, self) ==
    IF t.heap[self].left = Nil
    THEN Some(t.heap[self].value)
    ELSE recursive_min(t, t.heap[self].left)

RECURSIVE iterative_max(_, _)
iterative_max(t, root) ==
    LET current == Read(t, root)
    IN  IF current # Nil
        THEN IF t.heap[current].right = Nil
             THEN Some(t.heap[current].value)
             ELSE iterative_max(t, RightOf(current))
        ELSE None

\* recursive_max following the left children
recursive_max_goes_left(t, self) == recursive_min(t, self)

RECURSIVE recursive_max(_, _)
recursive_max(t, self) ==
    IF t.heap[self].right = Nil
    THEN Some(t.heap[self].value)
    ELSE recursive_max(t, t.heap[self].right)

Max2(a, b) == IF a >= b THEN a ELSE b

\* The inner `while size > 0` of iterative_height: one level of the queue.
RECURSIVE iterative_height_level(_, _, _)
iterative_height_level(t, queue, size) ==
    IF size > 0
    THEN IF queue = << >> \/ Head(queue) = Nil
         THEN [queue |-> queue, panic |-> TRUE]
         ELSE LET current == t.heap[Head(queue)]
                  q1 == IF current.left # Nil
                        THEN Append(Tail(queue), current.left)
                        ELSE Tail(queue)
                  q2 == IF current.right # Nil
                        THEN Append(q1, current.right)
                        ELSE q1
              IN  iterative_height_level(t, q2, size - 1)
    ELSE [queue |-> queue, panic |-> FALSE]

\* The outer `while !queue.is_empty()` of iterative_height.
RECURSIVE iterative_height_loop(_, _, _)
iterative_height_loop(t, queue, height) ==
    IF queue # << >>
    THEN LET lvl == iterative_height_level(t, queue, Len(queue))
         IN  IF lvl.panic
             THEN [ret |-> height, panic |-> TRUE]
             ELSE iterative_height_loop(t, lvl.queue, height + 1)
    ELSE [ret |-> height, panic |-> FALSE]

\* iterative_height counting levels, not edges
iterative_height_counts_levels(t, root) ==
    iterative_height_loop(t, <<Read(t, root)>>, 0)

iterative_height(t, root) == iterative_height_loop(t, <<Read(t, root)>>, -1)

RECURSIVE recursive_height(_, _)
recursive_height(t, root) ==
    IF root = Nil THEN -1
    ELSE 1 + Max2(recursive_height(t, t.heap[root].left),
                  recursive_height(t, t.heap[root].right))

----------------------------------------------------------------------------
(* Node: remove_min, remove_max, remove *)

\* Option::take on a slot: the slot becomes None, its content goes to the caller.
take(t, slot) == Write(t, slot, Nil)

\* `*slot = h`: what the slot held is dropped, then h is stored.
Assign(t, slot, h) == Write(Drop(t, Read(t, slot)), slot, h)

\* Detach leaving the slot empty: the node goes with the child it still owns
Detach_loses_child(t, root, side) ==
    LET node == Read(t, root)
        t1 == take(t, root)
    IN  [t |-> Drop(t1, node), ret |-> Some(t.heap[node].value), panic |-> FALSE]

\* `let node = root.take().unwrap(); *root = node.<side>; Some(node.value)`:
\* the child is moved out of the node into the slot, the value is moved to
\* the caller and the node's box is released at the end of the scope.
Detach(t, root, side) ==
    LET node == Read(t, root)
        child == IF side = "left" THEN t.heap[node].left ELSE t.heap[node].right
        t1 == take(t, root)
        t2 == Assign(t1, root, child)
        t3 == Write(t2, IF side = "left" THEN LeftOf(node) ELSE RightOf(node), Nil)
    IN  [t |-> Drop(t3, node), ret |-> Some(t.heap[node].value), panic |-> FALSE]

\* `while root.as_ref().unwrap().left.is_some() { root = &mut ...left }`
\* the cursor of iterative_remove_min staying on the slot it was given
iterative_remove_min_cursor_stays(t, root) == root

RECURSIVE iterative_remove_min_cursor(_, _)
iterative_remove_min_cursor(t, root) ==
    IF t.heap[Read(t, root)].left # Nil
    THEN iterative_remove_min_cursor(t, LeftOf(Read(t, root)))
    ELSE root

iterative_remove_min(t, root) ==
    IF Read(t, root) # Nil
    THEN Detach(t, iterative_remove_min_cursor(t, root), "right")
    ELSE [t |-> t, ret |-> None, panic |-> FALSE]

RECURSIVE recursive_remove_min(_, _)
recursive_remove_min(t, root) ==
    IF Read(t, root) = Nil
    THEN [t |-> t, ret |-> None, panic |-> TRUE]
    ELSE IF t.heap[Read(t, root)].left # Nil
         THEN recursive_remove_min(t, LeftOf(Read(t, root)))
         ELSE Detach(t, root, "right")

RECURSIVE iterative_remove_max_cursor(_, _)
iterative_remove_max_cursor(t, root) ==
    IF t.heap[Read(t, root)].right # Nil
    THEN iterative_remove_max_cursor(t, RightOf(Read(t, root)))
    ELSE root

iterative_remove_max(t, root) ==
    IF Read(t, root) # Nil
    THEN Detach(t, iterative_remove_max_cursor(t, root), "left")
    ELSE [t |-> t, ret |-> None, panic |-> FALSE]

RECURSIVE recursive_remove_max(_, _)
recursive_remove_max(t, root) ==
    IF Read(t, root) = Nil
    THEN [t |-> t, ret |-> None, panic |-> TRUE]
    ELSE IF t.heap[Read(t, root)].right # Nil
         THEN recursive_remove_max(t, RightOf(Read(t, root)))
         ELSE Detach(t, root, "left")

\* SetValue leaving the value of the node as it is
SetValue_keeps_value(t, node, removed) ==
    [t |-> removed.t, ret |-> "Ok", panic |-> removed.panic]

\* `node.value = <removed>.unwrap()`: the old value is dropped, the new one stored.
SetValue(t, node, removed) ==
    IF removed.ret = None
    THEN [t |-> removed.t, ret |-> "Ok", panic |-> TRUE]
    ELSE [t |-> [removed.t EXCEPT !.heap[node].value = removed.ret[1]],
          ret |-> "Ok", panic |-> removed.panic]

\* iterative_remove_found taking the largest value of the right subtree
iterative_remove_found_takes_max(t, root) ==
    LET current == Read(t, root)
        left == t.heap[current].left
        right == t.heap[current].right
    IN  CASE left = Nil /\ right = Nil ->
                [t |-> Assign(t, root, Nil), ret |-> "Ok", panic |-> FALSE]
          [] left # Nil /\ right = Nil ->
                [t |-> Assign(take(t, LeftOf(current)), root, left),
                 ret |-> "Ok", panic |-> FALSE]
          [] left = Nil /\ right # Nil ->
                [t |-> Assign(take(t, RightOf(current)), root, right),
                 ret |-> "Ok", panic |-> FALSE]
          [] OTHER ->
                SetValue(t, current, iterative_remove_max(t, RightOf(current)))

\* iterative_remove_found clearing the slot of a node that has one child
iterative_remove_found_drops_child(t, root) ==
    LET current == Read(t, root)
        left == t.heap[current].left
        right == t.heap[current].right
    IN  CASE left # Nil /\ right # Nil ->
                SetValue(t, current, iterative_remove_min(t, RightOf(current)))
          [] OTHER ->
                [t |-> Assign(t, root, Nil), ret |-> "Ok", panic |-> FALSE]

\* The Equal arm of iterative_remove, at the slot that holds the matching node.
iterative_remove_found(t, root) ==
    LET current == Read(t, root)
        left == t.heap[current].left
        right == t.heap[current].right
    IN  CASE left = Nil /\ right = Nil ->
                [t |-> Assign(t, root, Nil), ret |-> "Ok", panic |-> FALSE]
          [] left # Nil /\ right = Nil ->
                [t |-> Assign(take(t, LeftOf(current)), root, left),
                 ret |-> "Ok", panic |-> FALSE]
          [] left = Nil /\ right # Nil ->
                [t |-> Assign(take(t, RightOf(current)), root, right),
                 ret |-> "Ok", panic |-> FALSE]
          [] OTHER ->
                SetValue(t, current, iterative_remove_min(t, RightOf(current)))

RECURSIVE iterative_remove(_, _, _)
iterative_remove(t, root, value) ==
    LET current == Read(t, root)
    IN  IF current # Nil
        THEN CASE cmp(value, t.heap[current].value) = "Less" ->
                    iterative_remove(t, LeftOf(current), value)
               [] cmp(value, t.heap[current].value) = "Greater" ->
                    iterative_remove(t, RightOf(current), value)
               [] OTHER -> iterative_remove_found(t, root)
        ELSE [t |-> t, ret |-> "Err", panic |-> FALSE]

\* recursive_remove_found taking the in-order predecessor from the left subtree
recursive_remove_found_takes_predecessor(t, root) ==
    LET node == Read(t, root)
        left == t.heap[node].left
        right == t.heap[node].right
    IN  CASE left = Nil /\ right = Nil ->
                [t |-> Assign(t, root, Nil), ret |-> "Ok", panic |-> FALSE]
          [] left # Nil /\ right = Nil ->
                [t |-> Assign(take(t, LeftOf(node)), root, left),
                 ret |-> "Ok", panic |-> FALSE]
          [] left = Nil /\ right # Nil ->
                [t |-> Assign(take(t, RightOf(node)), root, right),
                 ret |-> "Ok", panic |-> FALSE]
          [] OTHER ->
                SetValue(t, node, recursive_remove_max(t, LeftOf(node)))

\* recursive_remove_found clearing the slot whatever the node owns
recursive_remove_found_clears_slot(t, root) ==
    [t |-> Assign(t, root, Nil), ret |-> "Ok", panic |-> FALSE]

\* The Equal arm of recursive_remove.
recursive_remove_found(t, root) ==
    LET node == Read(t, root)
        left == t.heap[node].left
        right == t.heap[node].right
    IN  CASE left = Nil /\ right = Nil ->
                [t |-> Assign(t, root, Nil), ret |-> "Ok", panic |-> FALSE]
          [] left # Nil /\ right = Nil ->
                [t |-> Assign(take(t, LeftOf(node)), root, left),
                 ret |-> "Ok", panic |-> FALSE]
          [] left = Nil /\ right # Nil ->
                [t |-> Assign(take(t, RightOf(node)), root, right),
                 ret |-> "Ok", panic |-> FALSE]
          [] OTHER ->
                SetValue(t, node, recursive_remove_min(t, RightOf(node)))

RECURSIVE recursive_remove(_, _, _)
recursive_remove(t, root, value) ==
    LET node == Read(t, root)
    IN  IF node # Nil
        THEN CASE cmp(value, t.heap[node].value) = "Less" ->
                    recursive_remove(t, LeftOf(node), value)
               [] cmp(value, t.heap[node].value) = "Greater" ->
                    recursive_remove(t, RightOf(node), value)
               [] OTHER -> recursive_remove_found(t, root)
        ELSE [t |-> t, ret |-> "Err", panic |-> FALSE]

----------------------------------------------------------------------------
(* Node: the borrowing traversals *)

Last(stack) == stack[Len(stack)]

Pop(stack) == SubSeq(stack, 1, Len(stack) - 1)

\* push h when it is Some
PushSome(stack, h) == IF h # Nil THEN Append(stack, h) ELSE stack

\* `while let Some(current) = stack.pop().unwrap_or(None)` of iterative_pre_order_vec
RECURSIVE iterative_pre_order_loop(_, _, _)
iterative_pre_order_loop(t, stack, elements) ==
    IF stack = << >> \/ Last(stack) = Nil
    THEN elements
    ELSE LET current == t.heap[Last(stack)]
         IN  iterative_pre_order_loop(
                 t,
                 PushSome(PushSome(Pop(stack), current.right), current.left),
                 Append(elements, current.value))

iterative_pre_order_vec(t, node) == iterative_pre_order_loop(t, <<node>>, << >>)

RECURSIVE recursive_pre_order_vec(_, _, _)
recursive_pre_order_vec(t, node, elements) ==
    IF node # Nil
    THEN recursive_pre_order_vec(
             t, t.heap[node].right,
             recursive_pre_order_vec(t, t.heap[node].left,
                                     Append(elements, t.heap[node].value)))
    ELSE elements

\* `while !stack.is_empty() || root.is_some()` of iterative_in_order_vec
RECURSIVE iterative_in_order_loop(_, _, _, _)
iterative_in_order_loop(t, root, stack, elements) ==
    IF stack # << >> \/ root # Nil
    THEN IF root # Nil
         THEN iterative_in_order_loop(t, t.heap[root].left, Append(stack, root),
                                      elements)
         ELSE LET node == Last(stack)
              IN  iterative_in_order_loop(t, t.heap[node].right, Pop(stack),
                                          Append(elements, t.heap[node].value))
    ELSE elements

iterative_in_order_vec(t, root) == iterative_in_order_loop(t, root, << >>, << >>)

RECURSIVE recursive_in_order_vec(_, _, _)
recursive_in_order_vec(t, node, elements) ==
    IF node # Nil
    THEN recursive_in_order_vec(
             t, t.heap[node].right,
             Append(recursive_in_order_vec(t, t.heap[node].left, elements),
                    t.heap[node].value))
    ELSE elements

\* first loop of iterative_post_order_vec: fills stack_two
RECURSIVE iterative_post_order_loop(_, _, _)
iterative_post_order_loop(t, stack_one, stack_two) ==
    IF stack_one = << >> \/ Last(stack_one) = Nil
    THEN stack_two
    ELSE LET node == Last(stack_one)
         IN  iterative_post_order_loop(
                 t,
                 PushSome(PushSome(Pop(stack_one), t.heap[node].left),
                          t.heap[node].right),
                 Append(stack_two, node))

\* second loop of iterative_post_order_vec: `while let Some(node) = stack_two.pop()`
RECURSIVE iterative_post_order_drain(_, _, _)
iterative_post_order_drain(t, stack_two, elements) ==
    IF stack_two = << >>
    THEN elements
    ELSE iterative_post_order_drain(t, Pop(stack_two),
                                    Append(elements, t.heap[Last(stack_two)].value))

iterative_post_order_vec(t, root) ==
    iterative_post_order_drain(t, iterative_post_order_loop(t, <<root>>, << >>),
                               << >>)

\* recursive_post_order_vec that does not go into the right subtree
RECURSIVE recursive_post_order_vec_skips_right(_, _, _)
recursive_post_order_vec_skips_right(t, node, elements) ==
    IF node # Nil
    THEN Append(recursive_post_order_vec_skips_right(t, t.heap[node].left, elements),
                t.heap[node].value)
    ELSE elements

RECURSIVE recursive_post_order_vec(_, _, _)
recursive_post_order_vec(t, node, elements) ==
    IF node # Nil
    THEN Append(recursive_post_order_vec(
                    t, t.heap[node].right,
                    recursive_post_order_vec(t, t.heap[node].left, elements)),
                t.heap[node].value)
    ELSE elements

\* iterative_level_order_loop queueing the right child before the left one
RECURSIVE iterative_level_order_loop_right_first(_, _, _)
iterative_level_order_loop_right_first(t, deque, elements) ==
    IF deque = << >> \/ Head(deque) = Nil
    THEN elements
    ELSE LET current == t.heap[Head(deque)]
         IN  iterative_level_order_loop_right_first(
                 t,
                 PushSome(PushSome(Tail(deque), current.right), current.left),
                 Append(elements, current.value))

\* `while let Some(current) = deque.pop_front().unwrap_or(None)`
RECURSIVE iterative_level_order_loop(_, _, _)
iterative_level_order_loop(t, deque, elements) ==
    IF deque = << >> \/ Head(deque) = Nil
    THEN elements
    ELSE LET current == t.heap[Head(deque)]
         IN  iterative_level_order_loop(
                 t,
                 PushSome(PushSome(Tail(deque), current.left), current.right),
                 Append(elements, current.value))

iterative_level_order_vec(t, root) ==
    iterative_level_order_loop(t, <<root>>, << >>)

RECURSIVE recursive_current_level(_, _, _, _)
recursive_current_level(t, root, elements, level) ==
    IF root # Nil
    THEN CASE level < 1 -> elements
           [] level = 1 -> Append(elements, t.heap[root].value)
           [] OTHER ->
                recursive_current_level(
                    t, t.heap[root].right,
                    recursive_current_level(t, t.heap[root].left, elements,
                                            level - 1),
                    level - 1)
    ELSE elements

\* `for i in 1..=height + 1` of recursive_level_order_vec, from i on
RECURSIVE recursive_level_order_from(_, _, _, _, _)
recursive_level_order_from(t, root, elements, i, height) ==
    IF i <= height + 1
    THEN recursive_level_order_from(
             t, root, recursive_current_level(t, root, elements, i), i + 1, height)
    ELSE elements

recursive_level_order_vec(t, root, elements) ==
    recursive_level_order_from(t, root, elements, 1, recursive_height(t, root))

----------------------------------------------------------------------------
(* Node: the consuming traversals *)

\* A consuming traversal owns the boxes it was given.  Its state c holds the
\* boxes still allocated, the output Vec, and four logs of box identities:
\* moved (the value of the box was put into the output), dropped (the
\* destructor of the value ran), freed (the box was deallocated) and entered
\* (the traversal went from the parent of the box to the box).

\* the value field of a box whose value has been moved out
MovedOut == 0

Consuming(heap) ==
    [heap |-> heap, elements |-> << >>, moved |-> << >>, dropped |-> << >>,
     freed |-> << >>, entered |-> << >>, panic |-> FALSE]

\* `elements.push(node.value)`: the value leaves box h for the output
push_value(c, h) ==
    [c EXCEPT !.elements = Append(@, c.heap[h].value),
              !.moved = Append(@, h),
              !.heap[h].value = MovedOut]

\* the traversal goes on to HeapNode h, a child of the node it is at
enter(c, h) == IF h # Nil THEN [c EXCEPT !.entered = Append(@, h)] ELSE c

\* moving the left (right) child out of box h, by `.take()` or by value, to
\* go on with it
move_left(c, h) == [enter(c, c.heap[h].left) EXCEPT !.heap[h].left = Nil]

move_right(c, h) == [enter(c, c.heap[h].right) EXCEPT !.heap[h].right = Nil]

\* Box h goes out of scope: what it still owns is dropped field by field
\* (value, left, right), then the box is deallocated.
RECURSIVE drop_box(_, _)
drop_box(c, h) ==
    IF h = Nil \/ h \notin DOMAIN c.heap THEN c
    ELSE LET node == c.heap[h]
             c1 == IF node.value # MovedOut
                   THEN [c EXCEPT !.dropped = Append(@, h)]
                   ELSE c
             c2 == drop_box(c1, node.left)
             c3 == drop_box(c2, node.right)
         IN  [c3 EXCEPT !.freed = Append(@, h),
                        !.heap = [b \in (DOMAIN c3.heap) \ {h} |-> c3.heap[b]]]

\* a Vec or VecDeque of HeapNodes goes out of scope
RECURSIVE drop_all(_, _)
drop_all(c, boxes) ==
    IF boxes = << >> THEN c
    ELSE drop_all(drop_box(c, Head(boxes)), Tail(boxes))

\* `while let Some(current) = stack.pop().unwrap_or(None)` of
\* iterative_consume_pre_order_vec
RECURSIVE iterative_consume_pre_order_loop(_, _)
iterative_consume_pre_order_loop(c, stack) ==
    IF stack = << >> THEN c
    ELSE IF Last(stack) = Nil THEN drop_all(c, Pop(stack))
    ELSE LET current == Last(stack)
             c1 == push_value(c, current)
             right == c1.heap[current].right
             c2 == IF right # Nil THEN move_right(c1, current) ELSE c1
             left == c2.heap[current].left
             c3 == IF left # Nil THEN move_left(c2, current) ELSE c2
         IN  iterative_consume_pre_order_loop(
                 drop_box(c3, current),
                 PushSome(PushSome(Pop(stack), right), left))

iterative_consume_pre_order_vec(heap, node) ==
    iterative_consume_pre_order_loop(Consuming(heap), <<node>>)

RECURSIVE recursive_consume_pre_order_vec(_, _)
recursive_consume_pre_order_vec(c, node) ==
    IF node # Nil
    THEN LET c1 == push_value(c, node)
             left == c1.heap[node].left
             c2 == recursive_consume_pre_order_vec(move_left(c1, node), left)
             right == c2.heap[node].right
             c3 == recursive_consume_pre_order_vec(move_right(c2, node), right)
         IN  drop_box(c3, node)
    ELSE c

\* `while !stack.is_empty()` of iterative_consume_in_order_vec; the stack is
\* not empty when `stack.pop().unwrap()` runs
RECURSIVE iterative_consume_in_order_loop(_, _)
iterative_consume_in_order_loop(c, stack) ==
    IF stack = << >> THEN c
    ELSE LET current == Last(stack)
         IN  IF current = Nil
             THEN iterative_consume_in_order_loop(c, Pop(stack))
             ELSE IF c.heap[current].left # Nil
             THEN LET left_node == c.heap[current].left
                  IN  iterative_consume_in_order_loop(
                          move_left(c, current),
                          Append(Append(Pop(stack), current), left_node))
             ELSE LET right_node == c.heap[current].right
                      c1 == push_value(move_right(c, current), current)
                  IN  iterative_consume_in_order_loop(
                          drop_box(c1, current),
                          Append(Pop(stack), right_node))

iterative_consume_in_order_vec(heap, root) ==
    iterative_consume_in_order_loop(Consuming(heap), <<root>>)

RECURSIVE recursive_consume_in_order_vec(_, _)
recursive_consume_in_order_vec(c, node) ==
    IF node # Nil
    THEN LET left == c.heap[node].left
             c1 == recursive_consume_in_order_vec(move_left(c, node), left)
             c2 == push_value(c1, node)
             right == c2.heap[node].right
             c3 == recursive_consume_in_order_vec(move_right(c2, node), right)
         IN  drop_box(c3, node)
    ELSE c

\* first loop of iterative_consume_post_order_vec: the nodes go from
\* stack_one to stack_two, their children to stack_one
RECURSIVE iterative_consume_post_order_loop(_, _, _)
iterative_consume_post_order_loop(c, stack_one, stack_two) ==
    IF stack_one = << >> THEN [c |-> c, stack_two |-> stack_two]
    ELSE IF Last(stack_one) = Nil
    THEN [c |-> drop_all(c, Pop(stack_one)), stack_two |-> stack_two]
    ELSE LET node == Last(stack_one)
             left_node == c.heap[node].left
             right_node == c.heap[node].right
         IN  iterative_consume_post_order_loop(
                 move_right(move_left(c, node), node),
                 PushSome(PushSome(Pop(stack_one), left_node), right_node),
                 Append(stack_two, node))

\* `while let Some(node) = stack_two.pop()`
RECURSIVE iterative_consume_post_order_drain(_, _)
iterative_consume_post_order_drain(c, stack_two) ==
    IF stack_two = << >> THEN c
    ELSE LET node == Last(stack_two)
         IN  iterative_consume_post_order_drain(
                 drop_box(push_value(c, node), node), Pop(stack_two))

iterative_consume_post_order_vec(heap, root) ==
    LET first == iterative_consume_post_order_loop(Consuming(heap), <<root>>,
                                                   << >>)
    IN  iterative_consume_post_order_drain(first.c, first.stack_two)

RECURSIVE recursive_consume_post_order_vec(_, _)
recursive_consume_post_order_vec(c, node) ==
    IF node # Nil
    THEN LET left == c.heap[node].left
             c1 == recursive_consume_post_order_vec(move_left(c, node), left)
             right == c1.heap[node].right
             c2 == recursive_consume_post_order_vec(move_right(c1, node), right)
         IN  drop_box(push_value(c2, node), node)
    ELSE c

\* `while let Some(current) = deque.pop_front().unwrap_or(None)` of
\* iterative_consume_level_order_vec
RECURSIVE iterative_consume_level_order_loop(_, _)
iterative_consume_level_order_loop(c, deque) ==
    IF deque = << >> THEN c
    ELSE IF Head(deque) = Nil THEN drop_all(c, Tail(deque))
    ELSE LET current == Head(deque)
             c1 == push_value(c, current)
             left == c1.heap[current].left
             c2 == IF left # Nil THEN move_left(c1, current) ELSE c1
             right == c2.heap[current].right
             c3 == IF right # Nil THEN move_right(c2, current) ELSE c2
         IN  iterative_consume_level_order_loop(
                 drop_box(c3, current),
                 PushSome(PushSome(Tail(deque), left), right))

iterative_consume_level_order_vec(heap, root) ==
    iterative_consume_level_order_loop(Consuming(heap), <<root>>)

\* `ptr::read(&node.value)` at the asked level: the output gets a copy of the
\* value and the box keeps its own
RECURSIVE write_level_into_vec(_, _, _)
write_level_into_vec(c, root, level) ==
    IF root # Nil
    THEN IF level = 0
         THEN [c EXCEPT !.elements = Append(@, c.heap[root].value),
                        !.moved = Append(@, root)]
         ELSE LET left == c.heap[root].left
                  right == c.heap[root].right
              IN  write_level_into_vec(
                      enter(write_level_into_vec(enter(c, left), left, level - 1),
                            right),
                      right, level - 1)
    ELSE c

\* dealloc_boxes without `mem::forget(value)`: the value goes out of scope
RECURSIVE dealloc_boxes_without_forget(_, _)
dealloc_boxes_without_forget(c, root) ==
    IF root # Nil
    THEN LET node == c.heap[root]
             c1 == dealloc_boxes_without_forget(move_left(c, root), node.left)
             c2 == dealloc_boxes_without_forget(move_right(c1, root), node.right)
         IN  drop_box(c2, root)
    ELSE c

\* dealloc_boxes forgetting every value and leaving the boxes to the
\* destructor of the root, without going to the children itself
dealloc_boxes_by_drop(c, root) ==
    IF root # Nil
    THEN drop_box([c EXCEPT !.heap = [b \in DOMAIN c.heap |->
                                        [c.heap[b] EXCEPT !.value = MovedOut]]],
                  root)
    ELSE c

\* the box is destructured, its value forgotten, its children deallocated
RECURSIVE dealloc_boxes(_, _)
dealloc_boxes(c, root) ==
    IF root # Nil
    THEN LET node == c.heap[root]
             forgotten == [c EXCEPT !.heap[root].value = MovedOut]
             c1 == dealloc_boxes(move_left(forgotten, root), node.left)
             c2 == dealloc_boxes(move_right(c1, root), node.right)
         IN  drop_box(c2, root)
    ELSE c

\* `for i in 0..height + 1`
RECURSIVE recursive_consume_level_order_from(_, _, _, _)
recursive_consume_level_order_from(c, root, i, height) ==
    IF i < height + 1
    THEN recursive_consume_level_order_from(write_level_into_vec(c, root, i),
                                            root, i + 1, height)
    ELSE c

\* recursive_consume_level_order_vec returning before dealloc_boxes
recursive_consume_level_order_vec_keeps_boxes(c, root) ==
    recursive_consume_level_order_from(c, root, 0, recursive_height(c, root))

recursive_consume_level_order_vec(c, root) ==
    LET height == recursive_height(c, root)
    IN  dealloc_boxes(recursive_consume_level_order_from(c, root, 0, height),
                      root)

----------------------------------------------------------------------------
(* What a public call hands back: the unit value, a bool, an Option or a Vec *)

Unit == [kind |-> "unit", val |-> << >>]

Bool(b) == [kind |-> "bool", val |-> <<b>>]

Opt(o) == [kind |-> "option", val |-> o]

Vec(elements) == [kind |-> "vec", val |-> elements]

Usize(n) == [kind |-> "usize", val |-> <<n>>]

\* vec::IntoIter<T>, by the values it will yield
IntoIter(elements) == [kind |-> "into_iter", val |-> elements]

\* A call's outcome: the tree afterwards, the value returned to the caller,
\* the Result of the node-level call inside it ("-" when there is none) and
\* whether an unwrap() panicked.
Outcome(t, ret, signal, panic) ==
    [t |-> t, ret |-> ret, signal |-> signal, panic |-> panic]

----------------------------------------------------------------------------
(* impl BinarySearchTree for IterativeBST *)

IterativeBST_size(t) == t.size

IterativeBST_is_empty(t) == t.size = 0

IterativeBST_is_not_empty(t) == t.size # 0

\* IterativeBST_insert counting the value whatever the node-level answer
IterativeBST_insert_counts_always(t, value) ==
    LET r == iterative_insert(t, RootSlot, value)
    IN  Outcome([r.t EXCEPT !.size = usize_add(@, 1)], Unit, r.ret, FALSE)

\* IterativeBST_insert making the new node the root, above the tree as it was
IterativeBST_insert_above_root(t, value) ==
    IF iterative_contains(t, RootSlot, value)
    THEN Outcome(t, Unit, "Err", FALSE)
    ELSE LET id == NewBox(t.heap)
             node == IF t.root # Nil /\ t.heap[t.root].value < value
                     THEN [value |-> value, left |-> t.root, right |-> Nil]
                     ELSE [value |-> value, left |-> Nil, right |-> t.root]
             t1 == Write(Alloc(t, id, node), RootSlot, id)
         IN  Outcome([t1 EXCEPT !.size = usize_add(@, 1)], Unit, "Ok", FALSE)

IterativeBST_insert(t, value) ==
    LET r == iterative_insert(t, RootSlot, value)
    IN  IF r.ret = "Ok"
        THEN Outcome([r.t EXCEPT !.size = usize_add(@, 1)], Unit, r.ret, FALSE)
        ELSE Outcome(r.t, Unit, r.ret, FALSE)

IterativeBST_contains(t, value) == iterative_contains(t, RootSlot, value)

\* IterativeBST_remove leaving the counter alone
IterativeBST_remove_keeps_size(t, value) ==
    LET r == iterative_remove(t, RootSlot, value)
    IN  Outcome(r.t, Unit, r.ret, r.panic)

IterativeBST_remove(t, value) ==
    LET r == iterative_remove(t, RootSlot, value)
    IN  IF r.ret = "Ok"
        THEN Outcome([r.t EXCEPT !.size = usize_sub(@, 1)], Unit, r.ret, r.panic)
        ELSE Outcome(r.t, Unit, r.ret, r.panic)

IterativeBST_retrieve(t, value) == iterative_retrieve(t, RootSlot, value)

IterativeBST_retrieve_as_mut(t, value) ==
    iterative_retrieve_as_mut(t, RootSlot, value)

\* IterativeBST_height without the look at the root
IterativeBST_height_of_any_root(t) ==
    LET h == iterative_height(t, RootSlot)
    IN  Outcome(t, Opt(Some(h.ret)), "-", h.panic)

IterativeBST_height(t) ==
    IF t.root # Nil
    THEN LET h == iterative_height(t, RootSlot)
         IN  Outcome(t, Opt(Some(h.ret)), "-", h.panic)
    ELSE Outcome(t, Opt(None), "-", FALSE)

IterativeBST_min(t) == iterative_min(t, RootSlot)

IterativeBST_max(t) == iterative_max(t, RootSlot)

\* IterativeBST_remove_min with the counter left alone
IterativeBST_remove_min_keeps_size(t) ==
    LET removed_min == iterative_remove_min(t, RootSlot)
    IN  Outcome(removed_min.t, Opt(removed_min.ret), "-", removed_min.panic)

IterativeBST_remove_min(t) ==
    LET removed_min == iterative_remove_min(t, RootSlot)
    IN  IF removed_min.ret # None
        THEN Outcome([removed_min.t EXCEPT !.size = usize_sub(@, 1)],
                     Opt(removed_min.ret), "-", removed_min.panic)
        ELSE Outcome(removed_min.t, Opt(removed_min.ret), "-", removed_min.panic)

IterativeBST_remove_max(t) ==
    LET removed_max == iterative_remove_max(t, RootSlot)
    IN  IF removed_max.ret # None
        THEN Outcome([removed_max.t EXCEPT !.size = usize_sub(@, 1)],
                     Opt(removed_max.ret), "-", removed_max.panic)
        ELSE Outcome(removed_max.t, Opt(removed_max.ret), "-", removed_max.panic)

IterativeBST_pre_order_vec(t) == iterative_pre_order_vec(t, t.root)

\* IterativeBST_in_order_vec calling the pre-order walk
IterativeBST_in_order_vec_calls_pre_order(t) == iterative_pre_order_vec(t, t.root)

IterativeBST_in_order_vec(t) == iterative_in_order_vec(t, t.root)

IterativeBST_asc_order_vec(t) == IterativeBST_in_order_vec(t)

IterativeBST_post_order_vec(t) == iterative_post_order_vec(t, t.root)

IterativeBST_level_order_vec(t) == iterative_level_order_vec(t, t.root)

\* impl PartialEq for IterativeBST
IterativeBST_into_pre_order_iter(t) ==
    iterative_consume_pre_order_vec(t.heap, t.root)

IterativeBST_into_in_order_iter(t) ==
    iterative_consume_in_order_vec(t.heap, t.root)

IterativeBST_into_asc_order_iter(t) == IterativeBST_into_in_order_iter(t)

IterativeBST_into_post_order_iter(t) ==
    iterative_consume_post_order_vec(t.heap, t.root)

IterativeBST_into_level_order_iter(t) ==
    iterative_consume_level_order_vec(t.heap, t.root)

\* PartialEq comparing the pre-order sequences
IterativeBST_eq_by_pre_order(self, other) ==
    IterativeBST_pre_order_vec(self) = IterativeBST_pre_order_vec(other)

IterativeBST_eq(self, other) ==
    IterativeBST_asc_order_vec(self) = IterativeBST_asc_order_vec(other)

\* `for value in self.in_order_iter() { bst.insert((*value).clone()) }`
RECURSIVE IterativeBST_clone_loop(_, _)
IterativeBST_clone_loop(bst, values) ==
    IF values = << >> THEN bst
    ELSE IterativeBST_clone_loop(IterativeBST_insert(bst, Head(values)).t,
                                 Tail(values))

\* clone handing back the tree it was called on
IterativeBST_clone_is_shallow(t) == t

\* the new tree is built in the heap the cloned one lives in
IterativeBST_clone(t) ==
    IterativeBST_clone_loop(In(BST_new, t.heap), IterativeBST_in_order_vec(t))

----------------------------------------------------------------------------
(* impl BinarySearchTree for RecursiveBST *)

RecursiveBST_size(t) == t.size

RecursiveBST_is_empty(t) == t.size = 0

RecursiveBST_is_not_empty(t) == t.size # 0

\* RecursiveBST_insert counting the value whatever the node-level answer
RecursiveBST_insert_counts_always(t, value) ==
    IF t.root = Nil
    THEN LET id == NewBox(t.heap)
             t1 == Write(Alloc(t, id, Node_new(value)), RootSlot, id)
         IN  Outcome([t1 EXCEPT !.size = usize_add(@, 1)], Unit, "-", FALSE)
    ELSE LET r == recursive_insert(t, t.root, value)
         IN  Outcome([r.t EXCEPT !.size = usize_add(@, 1)], Unit, r.ret, FALSE)

RecursiveBST_insert(t, value) ==
    IF t.root = Nil
    THEN LET id == NewBox(t.heap)
             t1 == Write(Alloc(t, id, Node_new(value)), RootSlot, id)
         IN  Outcome([t1 EXCEPT !.size = usize_add(@, 1)], Unit, "-", FALSE)
    ELSE LET r == recursive_insert(t, t.root, value)
         IN  IF r.ret = "Ok"
             THEN Outcome([r.t EXCEPT !.size = usize_add(@, 1)], Unit, r.ret, FALSE)
             ELSE Outcome(r.t, Unit, r.ret, FALSE)

RecursiveBST_contains(t, value) ==
    IF t.root = Nil THEN FALSE ELSE recursive_contains(t, t.root, value)

\* RecursiveBST_remove counting down whatever the node-level answer
RecursiveBST_remove_counts_always(t, value) ==
    LET r == recursive_remove(t, RootSlot, value)
    IN  Outcome([r.t EXCEPT !.size = usize_sub(@, 1)], Unit, r.ret, r.panic)

RecursiveBST_remove(t, value) ==
    LET r == recursive_remove(t, RootSlot, value)
    IN  IF r.ret = "Ok"
        THEN Outcome([r.t EXCEPT !.size = usize_sub(@, 1)], Unit, r.ret, r.panic)
        ELSE Outcome(r.t, Unit, r.ret, r.panic)

RecursiveBST_retrieve(t, value) ==
    IF t.root = Nil THEN None ELSE recursive_retrieve(t, t.root, value)

RecursiveBST_retrieve_as_mut(t, value) ==
    IF t.root = Nil THEN None ELSE recursive_retrieve_as_mut(t, t.root, value)

RecursiveBST_height(t) ==
    IF t.root # Nil
    THEN Outcome(t, Opt(Some(recursive_height(t, t.root))), "-", FALSE)
    ELSE Outcome(t, Opt(None), "-", FALSE)

RecursiveBST_min(t) ==
    IF t.root = Nil THEN None ELSE recursive_min(t, t.root)

RecursiveBST_max(t) ==
    IF t.root = Nil THEN None ELSE recursive_max(t, t.root)

\* RecursiveBST_remove_min without the match on the root
RecursiveBST_remove_min_of_any_root(t) ==
    LET removed_min == recursive_remove_min(t, RootSlot)
    IN  IF removed_min.ret # None
        THEN Outcome([removed_min.t EXCEPT !.size = usize_sub(@, 1)],
                     Opt(removed_min.ret), "-", removed_min.panic)
        ELSE Outcome(removed_min.t, Opt(removed_min.ret), "-", removed_min.panic)

RecursiveBST_remove_min(t) ==
    LET removed_min == IF t.root = Nil
                       THEN [t |-> t, ret |-> None, panic |-> FALSE]
                       ELSE recursive_remove_min(t, RootSlot)
    IN  IF removed_min.ret # None
        THEN Outcome([removed_min.t EXCEPT !.size = usize_sub(@, 1)],
                     Opt(removed_min.ret), "-", removed_min.panic)
        ELSE Outcome(removed_min.t, Opt(removed_min.ret), "-", removed_min.panic)

RecursiveBST_remove_max(t) ==
    LET removed_max == IF t.root = Nil
                       THEN [t |-> t, ret |-> None, panic |-> FALSE]
                       ELSE recursive_remove_max(t, RootSlot)
    IN  IF removed_max.ret # None
        THEN Outcome([removed_max.t EXCEPT !.size = usize_sub(@, 1)],
                     Opt(removed_max.ret), "-", removed_max.panic)
        ELSE Outcome(removed_max.t, Opt(removed_max.ret), "-", removed_max.panic)

RecursiveBST_pre_order_vec(t) == recursive_pre_order_vec(t, t.root, << >>)

RecursiveBST_in_order_vec(t) == recursive_in_order_vec(t, t.root, << >>)

RecursiveBST_asc_order_vec(t) == recursive_in_order_vec(t, t.root, << >>)

RecursiveBST_post_order_vec(t) == recursive_post_order_vec(t, t.root, << >>)

RecursiveBST_level_order_vec(t) == recursive_level_order_vec(t, t.root, << >>)

\* impl PartialEq for RecursiveBST
RecursiveBST_into_pre_order_iter(t) ==
    recursive_consume_pre_order_vec(Consuming(t.heap), t.root)

RecursiveBST_into_in_order_iter(t) ==
    recursive_consume_in_order_vec(Consuming(t.heap), t.root)

RecursiveBST_into_asc_order_iter(t) == RecursiveBST_into_in_order_iter(t)

RecursiveBST_into_post_order_iter(t) ==
    recursive_consume_post_order_vec(Consuming(t.heap), t.root)

RecursiveBST_into_level_order_iter(t) ==
    recursive_consume_level_order_vec(Consuming(t.heap), t.root)

RecursiveBST_eq(self, other) ==
    RecursiveBST_asc_order_vec(self) = RecursiveBST_asc_order_vec(other)

RECURSIVE RecursiveBST_clone_loop(_, _)
RecursiveBST_clone_loop(bst, values) ==
    IF values = << >> THEN bst
    ELSE RecursiveBST_clone_loop(RecursiveBST_insert(bst, Head(values)).t,
                                 Tail(values))

\* clone putting the values in as pre_order_vec() lists them
RecursiveBST_clone_by_pre_order(t) ==
    RecursiveBST_clone_loop(In(BST_new, t.heap), RecursiveBST_pre_order_vec(t))

RecursiveBST_clone(t) ==
    RecursiveBST_clone_loop(In(BST_new, t.heap), RecursiveBST_in_order_vec(t))

----------------------------------------------------------------------------
(* The state machine: every call is made on both trees *)

Returned(o) == [ret |-> o.ret, signal |-> o.signal]

SetMin(S) == CHOOSE x \in S : \A y \in S : x <= y

SetMax(S) == CHOOSE x \in S : \A y \in S : x >= y

\* the public calls that take the tree by value
Consumers ==
    {"into_pre_order_iter", "into_in_order_iter", "into_asc_order_iter",
     "into_post_order_iter", "into_level_order_iter"}

\* the logs of a consuming traversal
Disposed(c) ==
    [moved |-> c.moved, dropped |-> c.dropped, freed |-> c.freed,
     entered |-> c.entered]

\* The local variables of the loop of an IterativeBST call: the cursor `root`
\* (a slot) of the walks, the HeapNode `node` that iterative_in_order_vec calls
\* root, the stacks (or the queue, in stack), the consuming state c, the
\* output, the counters of iterative_height, the number of iterations done,
\* the boxes handled so far, which loop of the call is running, and whether
\* the last one has ended.  No call is in progress when op is "-".
Idle ==
    [op |-> "-", value |-> 0, root |-> RootSlot, node |-> Nil, stack |-> << >>,
     stack_two |-> << >>, c |-> Consuming(<< >>), elements |-> << >>,
     size |-> 0, height |-> -1, steps |-> 0, handled |-> << >>, loop |-> 1,
     ended |-> FALSE]

Init ==
    /\ iterative_bst = BST_new
    /\ recursive_bst = BST_new
    /\ iterative_other = [root |-> Nil, size |-> 0]
    /\ recursive_other = [root |-> Nil, size |-> 0]
    /\ pre = [iterative |-> BST_new, recursive |-> BST_new,
              iterative_other |-> iterative_other,
              recursive_other |-> recursive_other]
    /\ call = [op |-> "new", arg |-> 0,
               iterative |-> [ret |-> Unit, signal |-> "-"],
               recursive |-> [ret |-> Unit, signal |-> "-"]]
    /\ inserted = {}
    /\ panicked = FALSE
    /\ disposal = [iterative |-> Disposed(Consuming(<< >>)),
                   recursive |-> Disposed(Consuming(<< >>))]
    /\ walk = Idle

\* What is kept of the trees self and other a call leaves behind, the trees
\* having been before and beforeOther: trees that the call left alone are
\* renamed already.
Kept(before, beforeOther, self, other) ==
    IF self = before /\ other.root = beforeOther.root
                    /\ other.size = beforeOther.size
    THEN [self |-> before, other |-> beforeOther]
    ELSE RenamedPair(self.heap, self, other)

\* One public call `op(arg)` that leaves the first trees as i.t and r.t and
\* the second trees as io and ro, and hands back what i and r say; now is the
\* reference set of the first trees after it.
Turn(op, arg, i, r, io, ro, now, logs) ==
    /\ ~panicked
    /\ call.op \notin Consumers
    /\ LET iterative == Kept(iterative_bst, iterative_other, i.t, io)
           recursive == Kept(recursive_bst, recursive_other, r.t, ro)
       IN  /\ iterative_bst' = iterative.self
           /\ iterative_other' = iterative.other
           /\ recursive_bst' = recursive.self
           /\ recursive_other' = recursive.other
    /\ pre' = [iterative |-> iterative_bst, recursive |-> recursive_bst,
               iterative_other |-> iterative_other,
               recursive_other |-> recursive_other]
    /\ call' = [op |-> op, arg |-> arg,
                iterative |-> Returned(i), recursive |-> Returned(r)]
    /\ inserted' = now
    /\ panicked' = (i.panic \/ r.panic)
    /\ disposal' = logs
    /\ walk' = Idle

\* One public call `op(arg)` on the first trees, with outcome i on the
\* IterativeBST and r on the RecursiveBST.
Call(op, arg, i, r, now) ==
    Turn(op, arg, i, r, In(iterative_other, i.t.heap),
         In(recursive_other, r.t.heap), now,
         [iterative |-> Disposed(Consuming(<< >>)),
          recursive |-> Disposed(Consuming(<< >>))])

\* One public call that takes the first trees by value, with the traversal i
\* of the IterativeBST and r of the RecursiveBST.  The trees are gone
\* afterwards: what stays of each is an empty shell, in a heap that still
\* holds the boxes the call did not free, and no further call can be made.
Consume(op, i, r) ==
    Turn(op, 0,
         Outcome([root |-> Nil, size |-> 0, heap |-> i.heap],
                 IntoIter(i.elements), "-", i.panic),
         Outcome([root |-> Nil, size |-> 0, heap |-> r.heap],
                 IntoIter(r.elements), "-", r.panic),
         In(iterative_other, i.heap), In(recursive_other, r.heap), {},
         [iterative |-> Disposed(i), recursive |-> Disposed(r)])

Query(op, arg, iret, rret) ==
    Call(op, arg, Outcome(iterative_bst, iret, "-", FALSE),
         Outcome(recursive_bst, rret, "-", FALSE), inserted)

Insert(value) ==
    Call("insert", value, IterativeBST_insert(iterative_bst, value),
         RecursiveBST_insert(recursive_bst, value), inserted \cup {value})

Remove(value) ==
    Call("remove", value, IterativeBST_remove(iterative_bst, value),
         RecursiveBST_remove(recursive_bst, value), inserted \ {value})

RemoveMin ==
    Call("remove_min", 0, IterativeBST_remove_min(iterative_bst),
         RecursiveBST_remove_min(recursive_bst),
         IF inserted = {} THEN {} ELSE inserted \ {SetMin(inserted)})

RemoveMax ==
    Call("remove_max", 0, IterativeBST_remove_max(iterative_bst),
         RecursiveBST_remove_max(recursive_bst),
         IF inserted = {} THEN {} ELSE inserted \ {SetMax(inserted)})

Contains(value) ==
    Query("contains", value, Bool(IterativeBST_contains(iterative_bst, value)),
          Bool(RecursiveBST_contains(recursive_bst, value)))

Retrieve(value) ==
    Query("retrieve", value, Opt(IterativeBST_retrieve(iterative_bst, value)),
          Opt(RecursiveBST_retrieve(recursive_bst, value)))

PreOrderVec ==
    Query("pre_order_vec", 0, Vec(IterativeBST_pre_order_vec(iterative_bst)),
          Vec(RecursiveBST_pre_order_vec(recursive_bst)))

InOrderVec ==
    Query("in_order_vec", 0, Vec(IterativeBST_in_order_vec(iterative_bst)),
          Vec(RecursiveBST_in_order_vec(recursive_bst)))

AscOrderVec ==
    Query("asc_order_vec", 0, Vec(IterativeBST_asc_order_vec(iterative_bst)),
          Vec(RecursiveBST_asc_order_vec(recursive_bst)))

PostOrderVec ==
    Query("post_order_vec", 0, Vec(IterativeBST_post_order_vec(iterative_bst)),
          Vec(RecursiveBST_post_order_vec(recursive_bst)))

LevelOrderVec ==
    Query("level_order_vec", 0, Vec(IterativeBST_level_order_vec(iterative_bst)),
          Vec(RecursiveBST_level_order_vec(recursive_bst)))

Size ==
    Query("size", 0, Usize(IterativeBST_size(iterative_bst)),
          Usize(RecursiveBST_size(recursive_bst)))

IsEmpty ==
    Query("is_empty", 0, Bool(IterativeBST_is_empty(iterative_bst)),
          Bool(RecursiveBST_is_empty(recursive_bst)))

IsNotEmpty ==
    Query("is_not_empty", 0, Bool(IterativeBST_is_not_empty(iterative_bst)),
          Bool(RecursiveBST_is_not_empty(recursive_bst)))

Height ==
    Call("height", 0, IterativeBST_height(iterative_bst),
         RecursiveBST_height(recursive_bst), inserted)

Min ==
    Query("min", 0, Opt(IterativeBST_min(iterative_bst)),
          Opt(RecursiveBST_min(recursive_bst)))

Max ==
    Query("max", 0, Opt(IterativeBST_max(iterative_bst)),
          Opt(RecursiveBST_max(recursive_bst)))

IntoPreOrderIter ==
    Consume("into_pre_order_iter",
            IterativeBST_into_pre_order_iter(iterative_bst),
            RecursiveBST_into_pre_order_iter(recursive_bst))

IntoInOrderIter ==
    Consume("into_in_order_iter",
            IterativeBST_into_in_order_iter(iterative_bst),
            RecursiveBST_into_in_order_iter(recursive_bst))

IntoAscOrderIter ==
    Consume("into_asc_order_iter",
            IterativeBST_into_asc_order_iter(iterative_bst),
            RecursiveBST_into_asc_order_iter(recursive_bst))

IntoPostOrderIter ==
    Consume("into_post_order_iter",
            IterativeBST_into_post_order_iter(iterative_bst),
            RecursiveBST_into_post_order_iter(recursive_bst))

IntoLevelOrderIter ==
    Consume("into_level_order_iter",
            IterativeBST_into_level_order_iter(iterative_bst),
            RecursiveBST_into_level_order_iter(recursive_bst))

\* `self == other` on the first and the second tree
Eq ==
    Query("eq", 0,
          Bool(IterativeBST_eq(iterative_bst,
                               In(iterative_other, iterative_bst.heap))),
          Bool(RecursiveBST_eq(recursive_bst,
                               In(recursive_other, recursive_bst.heap))))

\* `other = self.clone()`: the clone is built, then what other held is dropped
Clone ==
    LET i == IterativeBST_clone(iterative_bst)
        r == RecursiveBST_clone(recursive_bst)
        io == Drop(i, iterative_other.root)
        ro == Drop(r, recursive_other.root)
    IN  Turn("clone", 0,
             Outcome(In(iterative_bst, io.heap), Unit, "-", FALSE),
             Outcome(In(recursive_bst, ro.heap), Unit, "-", FALSE),
             io, ro, inserted,
             [iterative |-> Disposed(Consuming(<< >>)),
              recursive |-> Disposed(Consuming(<< >>))])

\* One public call `op(arg)` on the second trees, with outcome i on the
\* IterativeBST and r on the RecursiveBST.
CallOther(op, arg, i, r) ==
    Turn(op, arg,
         Outcome(In(iterative_bst, i.t.heap), i.ret, i.signal, i.panic),
         Outcome(In(recursive_bst, r.t.heap), r.ret, r.signal, r.panic),
         i.t, r.t, inserted,
         [iterative |-> Disposed(Consuming(<< >>)),
          recursive |-> Disposed(Consuming(<< >>))])

OtherInsert(value) ==
    CallOther("other.insert", value,
              IterativeBST_insert(In(iterative_other, iterative_bst.heap), value),
              RecursiveBST_insert(In(recursive_other, recursive_bst.heap), value))

OtherRemove(value) ==
    CallOther("other.remove", value,
              IterativeBST_remove(In(iterative_other, iterative_bst.heap), value),
              RecursiveBST_remove(In(recursive_other, recursive_bst.heap), value))

Next ==
    \/ \E value \in Values : Insert(value)
    \/ \E value \in Values : Remove(value)
    \/ RemoveMin
    \/ RemoveMax
    \/ \E value \in Values : Contains(value)
    \/ \E value \in Values : Retrieve(value)
    \/ PreOrderVec
    \/ InOrderVec
    \/ AscOrderVec
    \/ PostOrderVec
    \/ LevelOrderVec
    \/ Size
    \/ IsEmpty
    \/ IsNotEmpty
    \/ Height
    \/ Min
    \/ Max
    \/ IntoPreOrderIter
    \/ IntoInOrderIter
    \/ IntoAscOrderIter
    \/ IntoPostOrderIter
    \/ IntoLevelOrderIter

Spec == Init /\ [][Next]_vars

RetrieveAsMut(value) ==
    Query("retrieve_as_mut", value,
          Opt(Deref(iterative_bst,
                    IterativeBST_retrieve_as_mut(iterative_bst, value))),
          Opt(Deref(recursive_bst,
                    RecursiveBST_retrieve_as_mut(recursive_bst, value))))

\* `*bst.retrieve_as_mut(&a).unwrap() = b`: the caller overwrites the value a
\* through the reference handed out; arg is <<a, b>>
Overwrite(a, b) ==
    LET i == IterativeBST_retrieve_as_mut(iterative_bst, a)
        r == RecursiveBST_retrieve_as_mut(recursive_bst, a)
    IN  /\ i # None
        /\ r # None
        /\ Call("overwrite", <<a, b>>,
                Outcome(WriteThrough(iterative_bst, i, b),
                        Opt(Deref(iterative_bst, i)), "-", FALSE),
                Outcome(WriteThrough(recursive_bst, r, b),
                        Opt(Deref(recursive_bst, r)), "-", FALSE),
                (inserted \ {a}) \cup {b})

\* no write through a reference has broken the order of the trees
StillOrdered ==
    LET iterative == IterativeBST_in_order_vec(iterative_bst)
        recursive == RecursiveBST_in_order_vec(recursive_bst)
    IN  /\ \A k \in 1..(Len(iterative) - 1) : iterative[k] < iterative[k + 1]
        /\ \A k \in 1..(Len(recursive) - 1) : recursive[k] < recursive[k + 1]

\* trees whose values the caller overwrites through retrieve_as_mut; a tree
\* is followed up to the first write that breaks its order, and is only
\* looked at after it
NextMut ==
    \/ StillOrdered /\ \E value \in Values : Insert(value)
    \/ StillOrdered /\ \E a, b \in Values : Overwrite(a, b)
    \/ \E value \in Values : RetrieveAsMut(value)

SpecMut == Init /\ [][NextMut]_vars

\* two trees of each engine, built and changed independently, cloned and
\* compared
NextPair ==
    \/ \E value \in PairValues : Insert(value)
    \/ \E value \in PairValues : Remove(value)
    \/ \E value \in PairValues : OtherInsert(value)
    \/ \E value \in PairValues : OtherRemove(value)
    \/ Clone
    \/ Eq

SpecPair == Init /\ [][NextPair]_vars

----------------------------------------------------------------------------
(* The loops of the IterativeBST, one iteration at a time *)

\* the calls whose loop moves a cursor down the tree
CursorWalks ==
    {"insert", "contains", "retrieve", "remove", "min", "max", "remove_min",
     "remove_max"}

BorrowingLoops ==
    {"pre_order_vec", "in_order_vec", "post_order_vec", "level_order_vec"}

ConsumingLoops ==
    {"into_pre_order_iter", "into_in_order_iter", "into_post_order_iter",
     "into_level_order_iter"}

\* The local variables when the first loop of op(value) on tree t is about to
\* run.  height() of an empty tree and remove_min() / remove_max() of an empty
\* slot return without entering their loop.
Begun(t, op, value) ==
    LET w == [Idle EXCEPT !.op = op, !.value = value]
    IN  CASE op \in {"pre_order_vec", "post_order_vec", "level_order_vec"} ->
                [w EXCEPT !.stack = <<t.root>>]
          [] op = "in_order_vec" -> [w EXCEPT !.node = t.root]
          [] op \in ConsumingLoops ->
                [w EXCEPT !.stack = <<t.root>>, !.c = Consuming(t.heap)]
          [] op \in {"height", "remove_min", "remove_max"} ->
                IF t.root # Nil
                THEN [w EXCEPT !.stack = IF op = "height" THEN <<t.root>> ELSE << >>]
                ELSE [w EXCEPT !.ended = TRUE]
          [] OTHER -> w

\* `while let Some(node) = root { match value.cmp(&node.value) { .. } }` of
\* iterative_insert, iterative_contains and iterative_retrieve
descend_step(t, w) ==
    LET node == Read(t, w.root)
    IN  IF node = Nil THEN [w EXCEPT !.ended = TRUE]
        ELSE CASE cmp(w.value, t.heap[node].value) = "Equal" ->
                    [w EXCEPT !.steps = @ + 1, !.ended = TRUE]
               [] cmp(w.value, t.heap[node].value) = "Less" ->
                    [w EXCEPT !.steps = @ + 1, !.root = LeftOf(node)]
               [] OTHER ->
                    [w EXCEPT !.steps = @ + 1, !.root = RightOf(node)]

\* `while root.as_ref().unwrap().left.is_some() { root = &mut ...left }`
iterative_remove_min_step(t, w) ==
    LET node == Read(t, w.root)
    IN  IF t.heap[node].left # Nil
        THEN [w EXCEPT !.steps = @ + 1, !.root = LeftOf(node)]
        ELSE [w EXCEPT !.ended = TRUE]

\* the loop of iterative_remove_max leaving the cursor where it is
iterative_remove_max_step_stays(t, w) ==
    LET node == Read(t, w.root)
    IN  IF t.heap[node].right # Nil
        THEN w
        ELSE [w EXCEPT !.ended = TRUE]

iterative_remove_max_step(t, w) ==
    LET node == Read(t, w.root)
    IN  IF t.heap[node].right # Nil
        THEN [w EXCEPT !.steps = @ + 1, !.root = RightOf(node)]
        ELSE [w EXCEPT !.ended = TRUE]

\* `while let Some(ref mut current) = root` of iterative_remove; when the
\* node found has two children the loop of iterative_remove_min runs on its
\* right slot
iterative_remove_step(t, w) ==
    LET current == Read(t, w.root)
    IN  IF w.loop = 2 THEN iterative_remove_min_step(t, w)
        ELSE IF current = Nil THEN [w EXCEPT !.ended = TRUE]
        ELSE CASE cmp(w.value, t.heap[current].value) = "Less" ->
                    [w EXCEPT !.steps = @ + 1, !.root = LeftOf(current)]
               [] cmp(w.value, t.heap[current].value) = "Greater" ->
                    [w EXCEPT !.steps = @ + 1, !.root = RightOf(current)]
               [] OTHER ->
                    IF t.heap[current].left # Nil /\ t.heap[current].right # Nil
                    THEN [w EXCEPT !.steps = @ + 1, !.root = RightOf(current),
                                   !.loop = 2]
                    ELSE [w EXCEPT !.steps = @ + 1, !.ended = TRUE]

\* `while let Some(current) = root { if current.left.is_none() { return .. } .. }`
iterative_min_step(t, w) ==
    LET current == Read(t, w.root)
    IN  IF current = Nil THEN [w EXCEPT !.ended = TRUE]
        ELSE IF t.heap[current].left = Nil
        THEN [w EXCEPT !.steps = @ + 1, !.ended = TRUE]
        ELSE [w EXCEPT !.steps = @ + 1, !.root = LeftOf(current)]

iterative_max_step(t, w) ==
    LET current == Read(t, w.root)
    IN  IF current = Nil THEN [w EXCEPT !.ended = TRUE]
        ELSE IF t.heap[current].right = Nil
        THEN [w EXCEPT !.steps = @ + 1, !.ended = TRUE]
        ELSE [w EXCEPT !.steps = @ + 1, !.root = RightOf(current)]

\* `while let Some(current) = stack.pop().unwrap_or(None)` of iterative_pre_order_vec
iterative_pre_order_vec_step(t, w) ==
    IF w.stack = << >> THEN [w EXCEPT !.ended = TRUE]
    ELSE IF Last(w.stack) = Nil THEN [w EXCEPT !.stack = Pop(@), !.ended = TRUE]
    ELSE LET current == Last(w.stack)
         IN  [w EXCEPT !.elements = Append(@, t.heap[current].value),
                       !.stack = PushSome(PushSome(Pop(@), t.heap[current].right),
                                          t.heap[current].left),
                       !.handled = Append(@, current),
                       !.steps = @ + 1]

\* `while !stack.is_empty() || root.is_some()` of iterative_in_order_vec
iterative_in_order_vec_step(t, w) ==
    IF w.stack # << >> \/ w.node # Nil
    THEN IF w.node # Nil
         THEN [w EXCEPT !.stack = Append(@, w.node),
                        !.node = t.heap[w.node].left,
                        !.steps = @ + 1]
         ELSE LET node == Last(w.stack)
              IN  [w EXCEPT !.stack = Pop(@),
                            !.elements = Append(@, t.heap[node].value),
                            !.node = t.heap[node].right,
                            !.handled = Append(@, node),
                            !.steps = @ + 1]
    ELSE [w EXCEPT !.ended = TRUE]

\* the two loops of iterative_post_order_vec, the stack being stack_one
iterative_post_order_vec_step(t, w) ==
    IF w.loop = 1
    THEN IF w.stack = << >> THEN [w EXCEPT !.loop = 2]
         ELSE IF Last(w.stack) = Nil THEN [w EXCEPT !.stack = Pop(@), !.loop = 2]
         ELSE LET node == Last(w.stack)
              IN  [w EXCEPT !.stack = PushSome(PushSome(Pop(@), t.heap[node].left),
                                               t.heap[node].right),
                            !.stack_two = Append(@, node),
                            !.steps = @ + 1]
    ELSE IF w.stack_two = << >> THEN [w EXCEPT !.ended = TRUE]
         ELSE LET node == Last(w.stack_two)
              IN  [w EXCEPT !.stack_two = Pop(@),
                            !.elements = Append(@, t.heap[node].value),
                            !.handled = Append(@, node),
                            !.steps = @ + 1]

\* `while let Some(current) = deque.pop_front().unwrap_or(None)` of
\* iterative_level_order_vec, the stack being the deque
iterative_level_order_vec_step(t, w) ==
    IF w.stack = << >> THEN [w EXCEPT !.ended = TRUE]
    ELSE IF Head(w.stack) = Nil THEN [w EXCEPT !.stack = Tail(@), !.ended = TRUE]
    ELSE LET current == Head(w.stack)
         IN  [w EXCEPT !.elements = Append(@, t.heap[current].value),
                       !.stack = PushSome(PushSome(Tail(@), t.heap[current].left),
                                          t.heap[current].right),
                       !.handled = Append(@, current),
                       !.steps = @ + 1]

\* The loops of iterative_height, the stack being the queue: `while
\* !queue.is_empty()` sets size, `while size > 0` handles one node, and the
\* last node of a level adds one to height.
iterative_height_step(t, w) ==
    IF w.size > 0
    THEN LET current == Head(w.stack)
         IN  [w EXCEPT !.stack = PushSome(PushSome(Tail(@), t.heap[current].left),
                                          t.heap[current].right),
                       !.size = @ - 1,
                       !.height = IF w.size = 1 THEN @ + 1 ELSE @,
                       !.handled = Append(@, current),
                       !.steps = @ + 1]
    ELSE IF w.stack # << >> THEN [w EXCEPT !.size = Len(w.stack)]
    ELSE [w EXCEPT !.ended = TRUE]

\* `while let Some(current) = stack.pop().unwrap_or(None)` of
\* iterative_consume_pre_order_vec; what is left on the stack is dropped when
\* the function returns
iterative_consume_pre_order_vec_step(w) ==
    IF w.stack = << >> THEN [w EXCEPT !.ended = TRUE]
    ELSE IF Last(w.stack) = Nil
    THEN [w EXCEPT !.c = drop_all(@, Pop(w.stack)), !.stack = Pop(@),
                   !.ended = TRUE]
    ELSE LET current == Last(w.stack)
             c1 == push_value(w.c, current)
             right == c1.heap[current].right
             c2 == IF right # Nil THEN move_right(c1, current) ELSE c1
             left == c2.heap[current].left
             c3 == IF left # Nil THEN move_left(c2, current) ELSE c2
         IN  [w EXCEPT !.c = drop_box(c3, current),
                       !.stack = PushSome(PushSome(Pop(@), right), left),
                       !.handled = Append(@, current),
                       !.steps = @ + 1]

\* `while !stack.is_empty()` of iterative_consume_in_order_vec
iterative_consume_in_order_vec_step(w) ==
    IF w.stack = << >> THEN [w EXCEPT !.ended = TRUE]
    ELSE LET current == Last(w.stack)
         IN  IF current = Nil
             THEN [w EXCEPT !.stack = Pop(@), !.steps = @ + 1]
             ELSE IF w.c.heap[current].left # Nil
             THEN LET left_node == w.c.heap[current].left
                  IN  [w EXCEPT !.c = move_left(@, current),
                                !.stack = Append(Append(Pop(@), current), left_node),
                                !.steps = @ + 1]
             ELSE LET right_node == w.c.heap[current].right
                      c1 == push_value(move_right(w.c, current), current)
                  IN  [w EXCEPT !.c = drop_box(c1, current),
                                !.stack = Append(Pop(@), right_node),
                                !.handled = Append(@, current),
                                !.steps = @ + 1]

\* the two loops of iterative_consume_post_order_vec, the stack being stack_one
iterative_consume_post_order_vec_step(w) ==
    IF w.loop = 1
    THEN IF w.stack = << >> THEN [w EXCEPT !.loop = 2]
         ELSE IF Last(w.stack) = Nil
         THEN [w EXCEPT !.c = drop_all(@, Pop(w.stack)), !.stack = Pop(@),
                        !.loop = 2]
         ELSE LET node == Last(w.stack)
                  left_node == w.c.heap[node].left
                  right_node == w.c.heap[node].right
              IN  [w EXCEPT !.c = move_right(move_left(@, node), node),
                            !.stack = PushSome(PushSome(Pop(@), left_node),
                                               right_node),
                            !.stack_two = Append(@, node),
                            !.steps = @ + 1]
    ELSE IF w.stack_two = << >> THEN [w EXCEPT !.ended = TRUE]
         ELSE LET node == Last(w.stack_two)
              IN  [w EXCEPT !.c = drop_box(push_value(@, node), node),
                            !.stack_two = Pop(@),
                            !.handled = Append(@, node),
                            !.steps = @ + 1]

\* `while let Some(current) = deque.pop_front().unwrap_or(None)` of
\* iterative_consume_level_order_vec, the stack being the deque
iterative_consume_level_order_vec_step(w) ==
    IF w.stack = << >> THEN [w EXCEPT !.ended = TRUE]
    ELSE IF Head(w.stack) = Nil
    THEN [w EXCEPT !.c = drop_all(@, Tail(w.stack)), !.stack = Tail(@),
                   !.ended = TRUE]
    ELSE LET current == Head(w.stack)
             c1 == push_value(w.c, current)
             left == c1.heap[current].left
             c2 == IF left # Nil THEN move_left(c1, current) ELSE c1
             right == c2.heap[current].right
             c3 == IF right # Nil THEN move_right(c2, current) ELSE c2
         IN  [w EXCEPT !.c = drop_box(c3, current),
                       !.stack = PushSome(PushSome(Tail(@), left), right),
                       !.handled = Append(@, current),
                       !.steps = @ + 1]

\* op(value) is called on both trees: the loop of the IterativeBST is about
\* to run.  While a call runs there is no last call: pre holds the trees the
\* call was made on and call.op is "-".
Begin(op, value) ==
    /\ walk = Idle
    /\ ~panicked
    /\ call.op \notin Consumers
    /\ walk' = Begun(iterative_bst, op, value)
    /\ pre' = [iterative |-> iterative_bst, recursive |-> recursive_bst,
               iterative_other |-> iterative_other,
               recursive_other |-> recursive_other]
    /\ call' = [op |-> "-", arg |-> 0,
                iterative |-> [ret |-> Unit, signal |-> "-"],
                recursive |-> [ret |-> Unit, signal |-> "-"]]
    /\ disposal' = [iterative |-> Disposed(Consuming(<< >>)),
                    recursive |-> Disposed(Consuming(<< >>))]
    /\ UNCHANGED <<iterative_bst, recursive_bst, inserted, panicked,
                   iterative_other, recursive_other>>

\* the loop of the call in progress goes on to w
Goes(w) ==
    /\ walk.op # "-"
    /\ ~walk.ended
    /\ walk' = w
    /\ UNCHANGED <<iterative_bst, recursive_bst, pre, call, inserted, panicked,
                   disposal, iterative_other, recursive_other>>

\* one iteration, or the leaving, of the loop of a cursor walk
StepWalk ==
    /\ walk.op \in CursorWalks
    /\ Goes(CASE walk.op \in {"insert", "contains", "retrieve"} ->
                    descend_step(iterative_bst, walk)
              [] walk.op = "remove" -> iterative_remove_step(iterative_bst, walk)
              [] walk.op = "min" -> iterative_min_step(iterative_bst, walk)
              [] walk.op = "max" -> iterative_max_step(iterative_bst, walk)
              [] walk.op = "remove_min" ->
                    iterative_remove_min_step(iterative_bst, walk)
              [] OTHER -> iterative_remove_max_step(iterative_bst, walk))

\* one iteration, or the leaving, of a loop of a borrowing traversal
StepBorrowing ==
    /\ walk.op \in BorrowingLoops
    /\ Goes(CASE walk.op = "pre_order_vec" ->
                    iterative_pre_order_vec_step(iterative_bst, walk)
              [] walk.op = "in_order_vec" ->
                    iterative_in_order_vec_step(iterative_bst, walk)
              [] walk.op = "post_order_vec" ->
                    iterative_post_order_vec_step(iterative_bst, walk)
              [] OTHER -> iterative_level_order_vec_step(iterative_bst, walk))

\* one iteration, or the leaving, of a loop of a consuming traversal
StepConsuming ==
    /\ walk.op \in ConsumingLoops
    /\ Goes(CASE walk.op = "into_pre_order_iter" ->
                    iterative_consume_pre_order_vec_step(walk)
              [] walk.op = "into_in_order_iter" ->
                    iterative_consume_in_order_vec_step(walk)
              [] walk.op = "into_post_order_iter" ->
                    iterative_consume_post_order_vec_step(walk)
              [] OTHER -> iterative_consume_level_order_vec_step(walk))

\* one step of the loops of iterative_height
StepHeight ==
    /\ walk.op = "height"
    /\ Goes(iterative_height_step(iterative_bst, walk))

\* the loop has ended and the call returns
Return ==
    /\ walk.ended
    /\ \/ walk.op = "insert" /\ Insert(walk.value)
       \/ walk.op = "contains" /\ Contains(walk.value)
       \/ walk.op = "retrieve" /\ Retrieve(walk.value)
       \/ walk.op = "remove" /\ Remove(walk.value)
       \/ walk.op = "min" /\ Min
       \/ walk.op = "max" /\ Max
       \/ walk.op = "remove_min" /\ RemoveMin
       \/ walk.op = "remove_max" /\ RemoveMax
       \/ walk.op = "pre_order_vec" /\ PreOrderVec
       \/ walk.op = "in_order_vec" /\ InOrderVec
       \/ walk.op = "post_order_vec" /\ PostOrderVec
       \/ walk.op = "level_order_vec" /\ LevelOrderVec
       \/ walk.op = "height" /\ Height
       \/ walk.op = "into_pre_order_iter" /\ IntoPreOrderIter
       \/ walk.op = "into_in_order_iter" /\ IntoInOrderIter
       \/ walk.op = "into_post_order_iter" /\ IntoPostOrderIter
       \/ walk.op = "into_level_order_iter" /\ IntoLevelOrderIter

NextLoops ==
    \/ \E op \in {"insert", "contains", "retrieve", "remove"} :
            \E value \in LoopValues : Begin(op, value)
    \/ \E op \in (CursorWalks \ {"insert", "contains", "retrieve", "remove"})
                    \cup BorrowingLoops \cup ConsumingLoops \cup {"height"} :
            Begin(op, 0)
    \/ StepWalk
    \/ StepBorrowing
    \/ StepConsuming
    \/ StepHeight
    \/ Return

\* the loop of the call in progress makes a step
Step == StepWalk \/ StepBorrowing \/ StepConsuming \/ StepHeight

\* The calls are synchronous and nothing else runs: a loop that can make a
\* step makes it.
SpecLoops == Init /\ [][NextLoops]_vars /\ WF_vars(Step)

----------------------------------------------------------------------------
(* Reading a tree's node graph, for the properties below *)

\* the nodes reachable from the root
Nodes(t) == Owned(t.heap, t.root)

\* the values held below HeapNode h
ValuesBelow(t, h) == {t.heap[n].value : n \in Owned(t.heap, h)}

ValuesOf(t) == ValuesBelow(t, t.root)

\* the node graph below h as a value: << >> or <<left graph, value, right graph>>
RECURSIVE Graph(_, _)
Graph(t, h) ==
    IF h = Nil THEN << >>
    ELSE <<Graph(t, t.heap[h].left), t.heap[h].value, Graph(t, t.heap[h].right)>>

\* a sequence without the occurrences of x
Without(seq, x) == SelectSeq(seq, LAMBDA v : v # x)

NonDecreasing(seq) == \A k \in 1..(Len(seq) - 1) : seq[k] <= seq[k + 1]

\* graph g without its leftmost node, whose right graph takes its place
RECURSIVE WithoutLeftmost(_)
WithoutLeftmost(g) ==
    IF g = << >> THEN << >>
    ELSE IF g[1] = << >> THEN g[3]
         ELSE <<WithoutLeftmost(g[1]), g[2], g[3]>>

\* graph g without its rightmost node, whose left graph takes its place
RECURSIVE WithoutRightmost(_)
WithoutRightmost(g) ==
    IF g = << >> THEN << >>
    ELSE IF g[3] = << >> THEN g[1]
         ELSE <<g[1], g[2], WithoutRightmost(g[3])>>

\* the last call was `op` and, where `op` takes one, its argument was in the
\* tree (present) or not in it (absent) when the call was made
Present == call.arg \in ValuesOf(pre.iterative)

Grew(t, before) == t.size = before.size + 1

Shrank(t, before) == t.size = before.size - 1

----------------------------------------------------------------------------
(* C1 .. C10 *)

SizeIsNodeCount(t) == t.size >= 0 /\ t.size = Cardinality(Nodes(t))

SizeStep(t, before) ==
    CASE call.op = "insert" ->
            IF call.arg \in ValuesOf(before) THEN t.size = before.size
            ELSE Grew(t, before)
      [] call.op = "remove" ->
            IF call.arg \in ValuesOf(before) THEN Shrank(t, before)
            ELSE t.size = before.size
      [] call.op \in {"remove_min", "remove_max"} ->
            IF before.root # Nil THEN Shrank(t, before)
            ELSE t.size = before.size
      [] call.op \in Consumers -> t.size = 0   \* the tree is gone
      [] OTHER -> t.size = before.size

\* C1: in both engines size() is the number of nodes reachable from the root
\* after every call; a successful insert adds exactly 1, a successful remove,
\* remove_min or remove_max subtracts exactly 1, a failed one changes nothing,
\* and the counter never goes below zero.
C1_SizeCountsNodes ==
    /\ SizeIsNodeCount(iterative_bst) /\ SizeStep(iterative_bst, pre.iterative)
    /\ SizeIsNodeCount(recursive_bst) /\ SizeStep(recursive_bst, pre.recursive)

C1_Witness ==
    /\ call.op = "remove_min"
    /\ pre.iterative.size = 3 /\ iterative_bst.size = 2
    /\ pre.recursive.size = 3 /\ recursive_bst.size = 2
    /\ Cardinality(Nodes(iterative_bst)) = 2

\* every node's left values are smaller, its right values greater
BstOrder(t) ==
    \A n \in Nodes(t) :
        /\ \A v \in ValuesBelow(t, t.heap[n].left) : v < t.heap[n].value
        /\ \A v \in ValuesBelow(t, t.heap[n].right) : v > t.heap[n].value

NoEqualValues(t) ==
    \A n, m \in Nodes(t) : n # m => t.heap[n].value # t.heap[m].value

\* C2: after any sequence of insert, remove, remove_min and remove_max calls,
\* in both engines, every node has only smaller values in its left subtree and
\* only greater values in its right subtree, and no two nodes hold equal values.
C2_BstOrder ==
    /\ BstOrder(iterative_bst) /\ NoEqualValues(iterative_bst)
    /\ BstOrder(recursive_bst) /\ NoEqualValues(recursive_bst)

\* a node with two children, one of them with a child of its own, was removed
C2_Witness ==
    /\ call.op = "remove"
    /\ pre.iterative.root # Nil
    /\ call.arg = pre.iterative.heap[pre.iterative.root].value
    /\ pre.iterative.heap[pre.iterative.root].left # Nil
    /\ pre.iterative.heap[pre.iterative.root].right # Nil
    /\ pre.iterative.size = 4
    /\ iterative_bst.size = 3 /\ recursive_bst.size = 3

\* C3: each tree is a set: contains(x) is true exactly for the values inserted
\* and not removed since, retrieve(x) is Some(x) exactly when contains(x) is
\* true and None otherwise, and what the last contains / retrieve call handed
\* back says the same.
C3_SetSemantics ==
    /\ \A x \in Values :
        /\ IterativeBST_contains(iterative_bst, x) = (x \in inserted)
        /\ RecursiveBST_contains(recursive_bst, x) = (x \in inserted)
        /\ IterativeBST_retrieve(iterative_bst, x) =
                IF IterativeBST_contains(iterative_bst, x) THEN Some(x) ELSE None
        /\ RecursiveBST_retrieve(recursive_bst, x) =
                IF RecursiveBST_contains(recursive_bst, x) THEN Some(x) ELSE None
    /\ call.op = "contains" =>
        /\ call.iterative.ret = Bool(call.arg \in inserted)
        /\ call.recursive.ret = Bool(call.arg \in inserted)
    /\ call.op = "retrieve" =>
        /\ call.iterative.ret =
                Opt(IF call.arg \in inserted THEN Some(call.arg) ELSE None)
        /\ call.recursive.ret =
                Opt(IF call.arg \in inserted THEN Some(call.arg) ELSE None)

\* a value of a three-node tree was removed; it is gone and the others are found
C3_Witness ==
    /\ call.op = "remove" /\ Present
    /\ pre.iterative.size = 3
    /\ ~IterativeBST_contains(iterative_bst, call.arg)
    /\ ~RecursiveBST_contains(recursive_bst, call.arg)
    /\ \E x, y \in Values :
        /\ x # y
        /\ IterativeBST_retrieve(iterative_bst, x) = Some(x)
        /\ RecursiveBST_retrieve(recursive_bst, y) = Some(y)

\* C4: in both engines in_order_vec() and asc_order_vec() are non-decreasing
\* and equal the values put in so far, sorted ascending with duplicates
\* removed; in particular after any sequence of inserts into an empty tree.
C4_InOrderSorted ==
    /\ NonDecreasing(IterativeBST_in_order_vec(iterative_bst))
    /\ NonDecreasing(RecursiveBST_in_order_vec(recursive_bst))
    /\ IterativeBST_in_order_vec(iterative_bst) = Ascending(inserted)
    /\ RecursiveBST_in_order_vec(recursive_bst) = Ascending(inserted)
    /\ IterativeBST_asc_order_vec(iterative_bst) = Ascending(inserted)
    /\ RecursiveBST_asc_order_vec(recursive_bst) = Ascending(inserted)
    /\ call.op \in {"in_order_vec", "asc_order_vec"} =>
        /\ call.iterative.ret = Vec(Ascending(inserted))
        /\ call.recursive.ret = Vec(Ascending(inserted))

\* a duplicate was offered to a tree whose root has both children and whose
\* values did not arrive in ascending order
C4_Witness ==
    /\ call.op = "insert" /\ Present
    /\ iterative_bst.size = 4
    /\ iterative_bst.heap[iterative_bst.root].left # Nil
    /\ iterative_bst.heap[iterative_bst.root].right # Nil
    /\ Len(IterativeBST_in_order_vec(iterative_bst)) = 4
    /\ Len(RecursiveBST_asc_order_vec(recursive_bst)) = 4

\* C5: driven by the same calls, the two engines give the same pre-order,
\* in-order, post-order and level-order sequences, and compare equal the way
\* PartialEq compares trees (by asc_order_vec()).
C5_EnginesAgree ==
    /\ IterativeBST_pre_order_vec(iterative_bst) =
            RecursiveBST_pre_order_vec(recursive_bst)
    /\ IterativeBST_in_order_vec(iterative_bst) =
            RecursiveBST_in_order_vec(recursive_bst)
    /\ IterativeBST_post_order_vec(iterative_bst) =
            RecursiveBST_post_order_vec(recursive_bst)
    /\ IterativeBST_level_order_vec(iterative_bst) =
            RecursiveBST_level_order_vec(recursive_bst)
    /\ IterativeBST_asc_order_vec(iterative_bst) =
            RecursiveBST_asc_order_vec(recursive_bst)
    /\ call.op \in {"pre_order_vec", "in_order_vec", "asc_order_vec",
                    "post_order_vec", "level_order_vec"} =>
            call.iterative.ret = call.recursive.ret

\* the level-order of a tree in which the four orders differ was asked for
C5_Witness ==
    /\ call.op = "level_order_vec"
    /\ Len(call.iterative.ret.val) = 4
    /\ call.iterative.ret.val # IterativeBST_pre_order_vec(iterative_bst)
    /\ call.iterative.ret.val # IterativeBST_in_order_vec(iterative_bst)
    /\ call.iterative.ret.val # IterativeBST_post_order_vec(iterative_bst)
    /\ IterativeBST_pre_order_vec(iterative_bst) #
            IterativeBST_in_order_vec(iterative_bst)

\* C6: inserting a value that is already present changes neither size() nor
\* the node graph, in both engines.
C6_DuplicateInsert ==
    (call.op = "insert" /\ Present) =>
        /\ iterative_bst = pre.iterative
        /\ recursive_bst = pre.recursive
        /\ iterative_bst.size = pre.iterative.size
        /\ Graph(iterative_bst, iterative_bst.root) =
                Graph(pre.iterative, pre.iterative.root)
        /\ Graph(recursive_bst, recursive_bst.root) =
                Graph(pre.recursive, pre.recursive.root)

\* a value held by a leaf, below the root, was inserted again
C6_Witness ==
    /\ call.op = "insert" /\ Present
    /\ call.arg # iterative_bst.heap[iterative_bst.root].value
    /\ iterative_bst.size = 3
    /\ recursive_bst.size = 3

\* C7 as the specification states it: insert hands the caller a boolean that
\* is true iff the value was inserted.
C7_InsertReturnsBool ==
    call.op = "insert" =>
        /\ call.iterative.ret = Bool(~Present)
        /\ call.recursive.ret = Bool(~Present)

\* C7, amended: insert hands the caller the unit value in both engines; that
\* the value was inserted shows in size() alone, which grows by one iff the
\* value was not already present, and the node-level insert, where one is
\* made, answers Ok iff the value was not already present.
C7_InsertReturnsUnit ==
    call.op = "insert" =>
        /\ call.iterative.ret = Unit
        /\ call.recursive.ret = Unit
        /\ Grew(iterative_bst, pre.iterative) <=> ~Present
        /\ Grew(recursive_bst, pre.recursive) <=> ~Present
        /\ call.iterative.signal = (IF Present THEN "Err" ELSE "Ok")
        /\ call.recursive.signal =
                (IF pre.recursive.root = Nil THEN "-"
                 ELSE IF Present THEN "Err" ELSE "Ok")

\* an insert that was refused, after an insert that was not
C7_Witness ==
    /\ call.op = "insert" /\ Present
    /\ call.recursive.signal = "Err"
    /\ call.iterative.signal = "Err"
    /\ iterative_bst.size = 2

\* C8: after remove(x) of a value x that was in the tree, in both engines,
\* contains(x) is false, size() is one less and in_order_vec() is the in-order
\* sequence of before without x.
C8_RemovePresent ==
    (call.op = "remove" /\ Present) =>
        /\ ~IterativeBST_contains(iterative_bst, call.arg)
        /\ ~RecursiveBST_contains(recursive_bst, call.arg)
        /\ Shrank(iterative_bst, pre.iterative)
        /\ Shrank(recursive_bst, pre.recursive)
        /\ IterativeBST_in_order_vec(iterative_bst) =
                Without(IterativeBST_in_order_vec(pre.iterative), call.arg)
        /\ RecursiveBST_in_order_vec(recursive_bst) =
                Without(RecursiveBST_in_order_vec(pre.recursive), call.arg)

\* a node that is not the root and has exactly one child was removed
C8_Witness ==
    /\ call.op = "remove" /\ Present
    /\ call.arg # pre.iterative.heap[pre.iterative.root].value
    /\ \E n \in Nodes(pre.iterative) :
        /\ pre.iterative.heap[n].value = call.arg
        /\ (pre.iterative.heap[n].left = Nil) # (pre.iterative.heap[n].right = Nil)
    /\ Len(IterativeBST_in_order_vec(iterative_bst)) = 3

\* C9: remove(x) of a value that is not in the tree, the empty tree included,
\* leaves both trees as they were: same node graph, same values, same size().
C9_RemoveAbsent ==
    (call.op = "remove" /\ ~Present) =>
        /\ iterative_bst = pre.iterative
        /\ recursive_bst = pre.recursive
        /\ call.iterative.signal = "Err"
        /\ call.recursive.signal = "Err"

\* a value lying between the values of a three-node tree was asked to go
C9_Witness ==
    /\ call.op = "remove" /\ ~Present
    /\ iterative_bst.size = 3
    /\ \E a, b \in ValuesOf(iterative_bst) : a < call.arg /\ call.arg < b

\* C10: on a non-empty tree remove_min() returns the smallest and remove_max()
\* the largest value; afterwards the value is not contained, size() is one
\* less, the in-order sequence is that of before without its first (last)
\* element, and the node graph is that of before with the removed node
\* replaced by its one remaining child subtree.
C10_RemoveExtreme ==
    /\ (call.op = "remove_min" /\ pre.iterative.root # Nil) =>
        LET before == IterativeBST_in_order_vec(pre.iterative)
        IN  /\ call.iterative.ret = Opt(Some(SetMin(ValuesOf(pre.iterative))))
            /\ call.recursive.ret = Opt(Some(SetMin(ValuesOf(pre.recursive))))
            /\ ~IterativeBST_contains(iterative_bst, before[1])
            /\ ~RecursiveBST_contains(recursive_bst, before[1])
            /\ Shrank(iterative_bst, pre.iterative)
            /\ Shrank(recursive_bst, pre.recursive)
            /\ IterativeBST_in_order_vec(iterative_bst) = Tail(before)
            /\ RecursiveBST_in_order_vec(recursive_bst) = Tail(before)
            /\ Graph(iterative_bst, iterative_bst.root) =
                    WithoutLeftmost(Graph(pre.iterative, pre.iterative.root))
            /\ Graph(recursive_bst, recursive_bst.root) =
                    WithoutLeftmost(Graph(pre.recursive, pre.recursive.root))
    /\ (call.op = "remove_max" /\ pre.iterative.root # Nil) =>
        LET before == IterativeBST_in_order_vec(pre.iterative)
        IN  /\ call.iterative.ret = Opt(Some(SetMax(ValuesOf(pre.iterative))))
            /\ call.recursive.ret = Opt(Some(SetMax(ValuesOf(pre.recursive))))
            /\ ~IterativeBST_contains(iterative_bst, before[Len(before)])
            /\ ~RecursiveBST_contains(recursive_bst, before[Len(before)])
            /\ Shrank(iterative_bst, pre.iterative)
            /\ Shrank(recursive_bst, pre.recursive)
            /\ IterativeBST_in_order_vec(iterative_bst) = Pop(before)
            /\ RecursiveBST_in_order_vec(recursive_bst) = Pop(before)
            /\ Graph(iterative_bst, iterative_bst.root) =
                    WithoutRightmost(Graph(pre.iterative, pre.iterative.root))
            /\ Graph(recursive_bst, recursive_bst.root) =
                    WithoutRightmost(Graph(pre.recursive, pre.recursive.root))

\* the smallest value sat below the root and had a right child, which took
\* its place
C10_Witness ==
    /\ call.op = "remove_min"
    /\ pre.iterative.size = 4
    /\ LET root == pre.iterative.heap[pre.iterative.root]
       IN  /\ root.left # Nil
           /\ pre.iterative.heap[root.left].left = Nil
           /\ pre.iterative.heap[root.left].right # Nil
    /\ call.iterative.ret.val # None
    /\ iterative_bst.size = 3

----------------------------------------------------------------------------
(* C11 .. C20 *)

\* what every engine answers on a tree t that holds no element
AnswersOfEmpty(t, height, min, max, remove_min, remove_max, size, is_empty,
               is_not_empty) ==
    /\ height.ret = Opt(None)
    /\ min = None
    /\ max = None
    /\ remove_min.ret = Opt(None)
    /\ remove_max.ret = Opt(None)
    /\ remove_min.t = t
    /\ remove_max.t = t
    /\ size = 0
    /\ is_empty
    /\ ~is_not_empty

\* C11: a tree that holds no element, fresh or emptied by removals, answers
\* None to height(), min(), max(), remove_min() and remove_max(), 0 to size(),
\* true to is_empty() and false to is_not_empty(), and remove_min() and
\* remove_max() leave it as it is; is_empty() is true only when the root is
\* absent.
C11_EmptyTree ==
    /\ Nodes(iterative_bst) = {} =>
        AnswersOfEmpty(iterative_bst, IterativeBST_height(iterative_bst),
                       IterativeBST_min(iterative_bst),
                       IterativeBST_max(iterative_bst),
                       IterativeBST_remove_min(iterative_bst),
                       IterativeBST_remove_max(iterative_bst),
                       IterativeBST_size(iterative_bst),
                       IterativeBST_is_empty(iterative_bst),
                       IterativeBST_is_not_empty(iterative_bst))
    /\ Nodes(recursive_bst) = {} =>
        AnswersOfEmpty(recursive_bst, RecursiveBST_height(recursive_bst),
                       RecursiveBST_min(recursive_bst),
                       RecursiveBST_max(recursive_bst),
                       RecursiveBST_remove_min(recursive_bst),
                       RecursiveBST_remove_max(recursive_bst),
                       RecursiveBST_size(recursive_bst),
                       RecursiveBST_is_empty(recursive_bst),
                       RecursiveBST_is_not_empty(recursive_bst))
    /\ IterativeBST_is_empty(iterative_bst) => iterative_bst.root = Nil
    /\ RecursiveBST_is_empty(recursive_bst) => recursive_bst.root = Nil
    /\ (call.op \in {"height", "min", "max", "remove_min", "remove_max"}
            /\ Nodes(pre.iterative) = {}) =>
        /\ call.iterative.ret = Opt(None)
        /\ call.recursive.ret = Opt(None)
        /\ iterative_bst = pre.iterative
        /\ recursive_bst = pre.recursive

\* the only value left in a tree was removed, so the tree holds no element
\* again
C11_Witness ==
    /\ call.op = "remove"
    /\ pre.iterative.size = 1
    /\ pre.recursive.size = 1
    /\ call.iterative.signal = "Ok"
    /\ iterative_bst.root = Nil
    /\ recursive_bst.root = Nil

\* min() and max() of a tree whose in-order sequence is in_order
ExtremesOf(in_order, min, max) ==
    /\ min # None
    /\ max # None
    /\ min = Some(in_order[1])
    /\ max = Some(in_order[Len(in_order)])
    /\ \A i \in 1..Len(in_order) : min[1] <= in_order[i] /\ in_order[i] <= max[1]

\* C12: on a non-empty tree of either engine min() is the first and max() the
\* last element of in_order_vec(), the least and the greatest value stored,
\* and neither is None.
C12_MinMax ==
    /\ iterative_bst.root # Nil =>
        /\ ExtremesOf(IterativeBST_in_order_vec(iterative_bst),
                      IterativeBST_min(iterative_bst),
                      IterativeBST_max(iterative_bst))
        /\ IterativeBST_min(iterative_bst) = Some(SetMin(ValuesOf(iterative_bst)))
        /\ IterativeBST_max(iterative_bst) = Some(SetMax(ValuesOf(iterative_bst)))
    /\ recursive_bst.root # Nil =>
        /\ ExtremesOf(RecursiveBST_in_order_vec(recursive_bst),
                      RecursiveBST_min(recursive_bst),
                      RecursiveBST_max(recursive_bst))
        /\ RecursiveBST_min(recursive_bst) = Some(SetMin(ValuesOf(recursive_bst)))
        /\ RecursiveBST_max(recursive_bst) = Some(SetMax(ValuesOf(recursive_bst)))
    /\ (call.op = "min" /\ pre.iterative.root # Nil) =>
        /\ call.iterative.ret = Opt(Some(SetMin(inserted)))
        /\ call.recursive.ret = Opt(Some(SetMin(inserted)))
    /\ (call.op = "max" /\ pre.iterative.root # Nil) =>
        /\ call.iterative.ret = Opt(Some(SetMax(inserted)))
        /\ call.recursive.ret = Opt(Some(SetMax(inserted)))

\* max() was called on a tree of at least three values whose greatest value
\* is not at the root
C12_Witness ==
    /\ call.op = "max"
    /\ iterative_bst.size >= 3
    /\ call.iterative.ret.val # None
    /\ call.recursive.ret.val # None
    /\ call.recursive.ret.val[1] # recursive_bst.heap[recursive_bst.root].value
    /\ recursive_bst.heap[recursive_bst.root].left # Nil

\* the numbers of edges on the paths from node h down to each leaf below it
RECURSIVE PathLengths(_, _)
PathLengths(t, h) ==
    LET node == t.heap[h]
        below == (IF node.left = Nil THEN {} ELSE PathLengths(t, node.left))
                 \cup (IF node.right = Nil THEN {} ELSE PathLengths(t, node.right))
    IN  IF below = {} THEN {0} ELSE {n + 1 : n \in below}

LongestPath(t) == SetMax(PathLengths(t, t.root))

\* C13: on a non-empty tree height() of both engines is Some(h), h the number
\* of edges on the longest path from the root to a leaf, Some(0) for a single
\* node; the level count of iterative_height is 1 + max(height(left),
\* height(right)) with an empty subtree counted as -1.
C13_Height ==
    /\ iterative_bst.root # Nil =>
        LET root == iterative_bst.heap[iterative_bst.root]
        IN  /\ IterativeBST_height(iterative_bst).ret =
                    Opt(Some(LongestPath(iterative_bst)))
            /\ iterative_height(iterative_bst, RootSlot).ret =
                    1 + Max2(recursive_height(iterative_bst, root.left),
                             recursive_height(iterative_bst, root.right))
            /\ recursive_height(iterative_bst, Nil) = -1
            /\ iterative_bst.size = 1 =>
                    IterativeBST_height(iterative_bst).ret = Opt(Some(0))
    /\ recursive_bst.root # Nil =>
        /\ RecursiveBST_height(recursive_bst).ret =
                Opt(Some(LongestPath(recursive_bst)))
        /\ recursive_bst.size = 1 =>
                RecursiveBST_height(recursive_bst).ret = Opt(Some(0))
    /\ (call.op = "height" /\ pre.iterative.root # Nil) =>
        /\ call.iterative.ret = Opt(Some(LongestPath(pre.iterative)))
        /\ call.recursive.ret = Opt(Some(LongestPath(pre.recursive)))

\* height() was called on a tree of four values whose longest path has two
\* edges, so its subtrees differ in height
C13_Witness ==
    /\ call.op = "height"
    /\ iterative_bst.size = 4
    /\ call.iterative.ret = Opt(Some(2))
    /\ call.recursive.ret = Opt(Some(2))

\* the borrowing traversal of the same order as the consuming call op
BorrowedIterative(op, t) ==
    CASE op = "into_pre_order_iter" -> IterativeBST_pre_order_vec(t)
      [] op = "into_in_order_iter" -> IterativeBST_in_order_vec(t)
      [] op = "into_asc_order_iter" -> IterativeBST_asc_order_vec(t)
      [] op = "into_post_order_iter" -> IterativeBST_post_order_vec(t)
      [] op = "into_level_order_iter" -> IterativeBST_level_order_vec(t)

BorrowedRecursive(op, t) ==
    CASE op = "into_pre_order_iter" -> RecursiveBST_pre_order_vec(t)
      [] op = "into_in_order_iter" -> RecursiveBST_in_order_vec(t)
      [] op = "into_asc_order_iter" -> RecursiveBST_asc_order_vec(t)
      [] op = "into_post_order_iter" -> RecursiveBST_post_order_vec(t)
      [] op = "into_level_order_iter" -> RecursiveBST_level_order_vec(t)

\* C14: in both engines and for each order (pre, in/asc, post, level) the
\* consuming traversal into_*_iter yields the sequence the borrowing *_vec
\* yields on the same tree, and no node of the tree remains afterwards.
C14_ConsumeAsBorrow ==
    call.op \in Consumers =>
        /\ call.iterative.ret = IntoIter(BorrowedIterative(call.op, pre.iterative))
        /\ call.recursive.ret = IntoIter(BorrowedRecursive(call.op, pre.recursive))
        /\ DOMAIN iterative_bst.heap = {}
        /\ DOMAIN recursive_bst.heap = {}
        /\ iterative_bst.root = Nil
        /\ recursive_bst.root = Nil

\* a tree of five values with two edges on its longest path was consumed in
\* level order
C14_Witness ==
    /\ call.op = "into_level_order_iter"
    /\ pre.iterative.size = 5
    /\ LongestPath(pre.recursive) = 2
    /\ Len(call.iterative.ret.val) = 5
    /\ Len(call.recursive.ret.val) = 5
    /\ Len(disposal.recursive.freed) = 5

\* the second tree of each engine, in the heap it shares with the first
IterativeOther == In(iterative_other, iterative_bst.heap)

RecursiveOther == In(recursive_other, recursive_bst.heap)

\* C15: two trees of the same engine are == exactly when their in-order
\* sequences are equal, whatever their shapes: trees holding the same values
\* are equal however they were built, trees holding different values are not.
C15_EqualityByValues ==
    /\ IterativeBST_eq(iterative_bst, IterativeOther)
            <=> (IterativeBST_in_order_vec(iterative_bst)
                    = IterativeBST_in_order_vec(IterativeOther))
    /\ IterativeBST_eq(iterative_bst, IterativeOther)
            <=> (ValuesOf(iterative_bst) = ValuesOf(IterativeOther))
    /\ RecursiveBST_eq(recursive_bst, RecursiveOther)
            <=> (RecursiveBST_in_order_vec(recursive_bst)
                    = RecursiveBST_in_order_vec(RecursiveOther))
    /\ RecursiveBST_eq(recursive_bst, RecursiveOther)
            <=> (ValuesOf(recursive_bst) = ValuesOf(RecursiveOther))
    /\ call.op = "eq" =>
        /\ call.iterative.ret =
                Bool(ValuesOf(iterative_bst) = ValuesOf(IterativeOther))
        /\ call.recursive.ret =
                Bool(ValuesOf(recursive_bst) = ValuesOf(RecursiveOther))

\* two trees of the same three values and of different shapes were compared
\* and found equal
C15_Witness ==
    /\ call.op = "eq"
    /\ call.iterative.ret = Bool(TRUE)
    /\ call.recursive.ret = Bool(TRUE)
    /\ iterative_bst.size = 3
    /\ Graph(iterative_bst, iterative_bst.root)
            # Graph(IterativeOther, IterativeOther.root)
    /\ Graph(recursive_bst, recursive_bst.root)
            # Graph(RecursiveOther, RecursiveOther.root)

\* the second trees as they were before the last call
IterativeOtherBefore == In(pre.iterative_other, pre.iterative.heap)

RecursiveOtherBefore == In(pre.recursive_other, pre.recursive.heap)

\* the tree t is what the tree before was: same nodes in the same places,
\* same size
Untouched(t, before) ==
    /\ Graph(t, t.root) = Graph(before, before.root)
    /\ t.size = before.size

\* C16: clone() yields a tree that is == to the cloned one, with the same
\* size() and the same in-order sequence, and that shares no node with it: an
\* insert or remove on one of the two leaves the other as it was.
C16_CloneIndependent ==
    /\ call.op = "clone" =>
        /\ IterativeBST_eq(IterativeOther, iterative_bst)
        /\ RecursiveBST_eq(RecursiveOther, recursive_bst)
        /\ IterativeBST_size(IterativeOther) = IterativeBST_size(iterative_bst)
        /\ RecursiveBST_size(RecursiveOther) = RecursiveBST_size(recursive_bst)
        /\ IterativeBST_in_order_vec(IterativeOther)
                = IterativeBST_in_order_vec(iterative_bst)
        /\ RecursiveBST_in_order_vec(RecursiveOther)
                = RecursiveBST_in_order_vec(recursive_bst)
        /\ SizeIsNodeCount(IterativeOther)
        /\ SizeIsNodeCount(RecursiveOther)
        /\ Untouched(iterative_bst, pre.iterative)
        /\ Untouched(recursive_bst, pre.recursive)
    /\ Nodes(iterative_bst) \cap Nodes(IterativeOther) = {}
    /\ Nodes(recursive_bst) \cap Nodes(RecursiveOther) = {}
    /\ call.op \in {"other.insert", "other.remove"} =>
        /\ Untouched(iterative_bst, pre.iterative)
        /\ Untouched(recursive_bst, pre.recursive)
    /\ call.op \in {"insert", "remove"} =>
        /\ Untouched(IterativeOther, IterativeOtherBefore)
        /\ Untouched(RecursiveOther, RecursiveOtherBefore)

\* a value was removed from a tree that was, node for node, the clone of a
\* tree of three values with a left child at the root
C16_Witness ==
    /\ call.op = "other.remove"
    /\ call.iterative.signal = "Ok"
    /\ call.recursive.signal = "Ok"
    /\ pre.iterative.size = 3
    /\ pre.iterative.heap[pre.iterative.root].left # Nil
    /\ LET cloned == IterativeBST_clone(pre.iterative)
       IN  Graph(IterativeOtherBefore, IterativeOtherBefore.root)
                = Graph(cloned, cloned.root)
    /\ LET cloned == RecursiveBST_clone(pre.recursive)
       IN  Graph(RecursiveOtherBefore, RecursiveOtherBefore.root)
                = Graph(cloned, cloned.root)
    /\ iterative_other.size = 2

\* every `stack.pop().unwrap()` and `node.as_ref().unwrap()` of
\* iterative_in_order_vec meets a present value
RECURSIVE InOrderUnwrapsPresent(_, _, _)
InOrderUnwrapsPresent(t, root, stack) ==
    IF stack # << >> \/ root # Nil
    THEN IF root # Nil
         THEN InOrderUnwrapsPresent(t, t.heap[root].left, Append(stack, root))
         ELSE /\ stack # << >>
              /\ Last(stack) # Nil
              /\ InOrderUnwrapsPresent(t, t.heap[Last(stack)].right, Pop(stack))
    ELSE TRUE

\* C17: no sequence of public calls panics on either tree: the unwrap()s of
\* iterative_height, of the removals and of the traversals are reached on
\* present slots only, on the empty tree, on a single node and when a node
\* with two children is removed.
C17_NoPanic ==
    /\ ~panicked
    /\ ~IterativeBST_height(iterative_bst).panic
    /\ ~IterativeBST_remove_min(iterative_bst).panic
    /\ ~IterativeBST_remove_max(iterative_bst).panic
    /\ ~RecursiveBST_remove_min(recursive_bst).panic
    /\ ~RecursiveBST_remove_max(recursive_bst).panic
    /\ \A value \in Values :
        /\ ~IterativeBST_remove(iterative_bst, value).panic
        /\ ~RecursiveBST_remove(recursive_bst, value).panic
    /\ InOrderUnwrapsPresent(iterative_bst, iterative_bst.root, << >>)

\* the root of a tree of five values was removed while it had two children
C17_Witness ==
    /\ ~panicked
    /\ call.op = "remove"
    /\ pre.iterative.size = 5
    /\ call.arg = pre.iterative.heap[pre.iterative.root].value
    /\ pre.iterative.heap[pre.iterative.root].left # Nil
    /\ pre.iterative.heap[pre.iterative.root].right # Nil
    /\ call.iterative.signal = "Ok"
    /\ call.recursive.signal = "Ok"

\* the values met on the way from node h down to the node that holds value,
\* that node left out
RECURSIVE Ancestors(_, _, _)
Ancestors(t, h, value) ==
    IF h = Nil \/ t.heap[h].value = value THEN {}
    ELSE {t.heap[h].value}
         \cup Ancestors(t, IF value < t.heap[h].value THEN t.heap[h].left
                           ELSE t.heap[h].right, value)

\* the caller overwrote a stored value with a value that was not stored
OverwroteWithNew ==
    /\ call.op = "overwrite"
    /\ call.arg[2] \notin ValuesOf(pre.iterative)

\* what retrieve_as_mut(&value) shows of the trees as they are now
FoundIn(value) ==
    [iterative |-> Deref(iterative_bst,
                         IterativeBST_retrieve_as_mut(iterative_bst, value)),
     recursive |-> Deref(recursive_bst,
                         RecursiveBST_retrieve_as_mut(recursive_bst, value))]

\* C18 as stated: once a was overwritten with a value b that was not in the
\* tree, retrieve_as_mut(&a) is None and retrieve_as_mut(&b) is Some(b), in
\* both engines.
C18_OverwrittenIsFound ==
    OverwroteWithNew =>
        /\ FoundIn(call.arg[1]) = [iterative |-> None, recursive |-> None]
        /\ FoundIn(call.arg[2]) = [iterative |-> Some(call.arg[2]),
                                   recursive |-> Some(call.arg[2])]

\* C18, amended: once a was overwritten with a value b that was not in the
\* tree, retrieve_as_mut(&a) is None in both engines, the shape and the size
\* of the tree are as before, and retrieve_as_mut(&b) is Some(b) exactly when
\* b compares to every value on the way from the root to the node of a as a
\* does; otherwise it is None.
C18_OverwrittenIsFoundOnSamePath ==
    OverwroteWithNew =>
        LET a == call.arg[1]
            b == call.arg[2]
            onSamePath ==
                \A c \in Ancestors(pre.iterative, pre.iterative.root, a) :
                    cmp(b, c) = cmp(a, c)
        IN  /\ FoundIn(a) = [iterative |-> None, recursive |-> None]
            /\ FoundIn(b) = IF onSamePath
                            THEN [iterative |-> Some(b), recursive |-> Some(b)]
                            ELSE [iterative |-> None, recursive |-> None]
            /\ call.iterative.ret = Opt(Some(a))
            /\ call.recursive.ret = Opt(Some(a))
            /\ ValuesOf(iterative_bst) = (ValuesOf(pre.iterative) \ {a}) \cup {b}
            /\ ValuesOf(recursive_bst) = (ValuesOf(pre.recursive) \ {a}) \cup {b}
            /\ iterative_bst.size = pre.iterative.size
            /\ recursive_bst.size = pre.recursive.size

\* a value two steps below the root was overwritten with a new value that
\* takes the same way down, and is found there
C18_Witness ==
    /\ OverwroteWithNew
    /\ Cardinality(Ancestors(pre.iterative, pre.iterative.root, call.arg[1])) = 2
    /\ FoundIn(call.arg[2]) = [iterative |-> Some(call.arg[2]),
                               recursive |-> Some(call.arg[2])]
    /\ FoundIn(call.arg[1]) = [iterative |-> None, recursive |-> None]

\* the graph below the node of graph g that holds value x, found by comparing
RECURSIVE GraphAt(_, _)
GraphAt(g, x) ==
    IF g = << >> THEN << >>
    ELSE IF x = g[2] THEN g
    ELSE IF x < g[2] THEN GraphAt(g[1], x) ELSE GraphAt(g[3], x)

\* graph g with new in the place of the graph below the node that holds x;
\* every other node keeps its value and its children
RECURSIVE ReplacedAt(_, _, _)
ReplacedAt(g, x, new) ==
    IF g = << >> THEN << >>
    ELSE IF x = g[2] THEN new
    ELSE IF x < g[2] THEN <<ReplacedAt(g[1], x, new), g[2], g[3]>>
    ELSE <<g[1], g[2], ReplacedAt(g[3], x, new)>>

RECURSIVE LeftmostValue(_)
LeftmostValue(g) == IF g[1] = << >> THEN g[2] ELSE LeftmostValue(g[1])

RECURSIVE GraphSize(_)
GraphSize(g) == IF g = << >> THEN 0 ELSE GraphSize(g[1]) + 1 + GraphSize(g[3])

\* remove(x) was called and met a node with two children
RemovedWithTwoChildren ==
    /\ call.op = "remove" /\ Present
    /\ LET found == GraphAt(Graph(pre.iterative, pre.iterative.root), call.arg)
       IN  found[1] # << >> /\ found[3] # << >>

\* the graph of tree t is that of before with the node of x kept in place,
\* its value the least of its right graph, its left graph as it was and its
\* right graph without its leftmost node
SuccessorTookPlace(t, before, x) ==
    LET g == Graph(before, before.root)
        found == GraphAt(g, x)
        now == Graph(t, t.root)
    IN  /\ now = ReplacedAt(g, x, <<found[1], LeftmostValue(found[3]),
                                    WithoutLeftmost(found[3])>>)
        /\ GraphAt(now, LeftmostValue(found[3]))[1] = found[1]
        /\ GraphSize(GraphAt(now, LeftmostValue(found[3]))[3])
                = GraphSize(found[3]) - 1
        /\ GraphSize(now) = GraphSize(g) - 1

\* root 10 with left 5 and right 15, which has children 12 and 20, written
\* with the values 2, 1, 4, 3, 5 in the same order
ExampleBefore == << <<<< >>, 1, << >>>>, 2,
                    << <<<< >>, 3, << >>>>, 4, <<<< >>, 5, << >>>> >> >>

ExampleAfter == << <<<< >>, 1, << >>>>, 3, << << >>, 4, <<<< >>, 5, << >>>> >> >>

\* C19: when remove(x) meets a node with two children, in either engine, the
\* node stays where it is, its value becomes the least value of its former
\* right subtree, its left subtree is as before, and the one node that held
\* that least value is detached with its right child put in its slot; removing
\* the root of the example tree makes the next larger value the root.
C19_TwoChildRemove ==
    RemovedWithTwoChildren =>
        /\ SuccessorTookPlace(iterative_bst, pre.iterative, call.arg)
        /\ SuccessorTookPlace(recursive_bst, pre.recursive, call.arg)
        /\ (Graph(pre.iterative, pre.iterative.root) = ExampleBefore
                /\ call.arg = 2) =>
            /\ Graph(iterative_bst, iterative_bst.root) = ExampleAfter
            /\ Graph(recursive_bst, recursive_bst.root) = ExampleAfter
            /\ IterativeBST_in_order_vec(iterative_bst) = <<1, 3, 4, 5>>
            /\ RecursiveBST_in_order_vec(recursive_bst) = <<1, 3, 4, 5>>

\* the root of the example tree was removed
C19_Witness ==
    /\ RemovedWithTwoChildren
    /\ Graph(pre.iterative, pre.iterative.root) = ExampleBefore
    /\ Graph(pre.recursive, pre.recursive.root) = ExampleBefore
    /\ call.arg = 2
    /\ iterative_bst.heap[iterative_bst.root].value = 3

\* remove(x) was called and met a node with no child or with one child
RemovedWithAtMostOneChild ==
    /\ call.op = "remove" /\ Present
    /\ LET found == GraphAt(Graph(pre.iterative, pre.iterative.root), call.arg)
       IN  found[1] = << >> \/ found[3] = << >>

\* the graph of tree t is that of before with the slot of the node of x
\* holding what was the node's only child, or nothing if it had none
ChildTookSlot(t, before, x) ==
    LET g == Graph(before, before.root)
        found == GraphAt(g, x)
    IN  Graph(t, t.root) =
            ReplacedAt(g, x, IF found[1] = << >> THEN found[3] ELSE found[1])

\* C20: when remove(x) meets a node without children the slot that owned it
\* becomes empty, and when it meets a node with one child the slot holds that
\* child with its whole subtree; every node other than the removed one keeps
\* its value and its children.
C20_LeafOrOneChildRemove ==
    RemovedWithAtMostOneChild =>
        /\ ChildTookSlot(iterative_bst, pre.iterative, call.arg)
        /\ ChildTookSlot(recursive_bst, pre.recursive, call.arg)
        /\ GraphSize(Graph(iterative_bst, iterative_bst.root))
                = GraphSize(Graph(pre.iterative, pre.iterative.root)) - 1
        /\ GraphSize(Graph(recursive_bst, recursive_bst.root))
                = GraphSize(Graph(pre.recursive, pre.recursive.root)) - 1

\* a node below the root whose only child had children of its own was removed
C20_Witness ==
    /\ RemovedWithAtMostOneChild
    /\ call.arg # pre.recursive.heap[pre.recursive.root].value
    /\ LET found == GraphAt(Graph(pre.recursive, pre.recursive.root), call.arg)
       IN  /\ found[1] = << >>
           /\ GraphSize(found[3]) >= 2
    /\ recursive_bst.size = pre.recursive.size - 1

----------------------------------------------------------------------------
(* C21 .. C30 *)

\* graph g with a new leaf holding x in the empty slot that comparing x with
\* the value of each node met, and going left or right, ends at
RECURSIVE WithLeaf(_, _)
WithLeaf(g, x) ==
    IF g = << >> THEN <<<< >>, x, << >>>>
    ELSE IF x < g[2] THEN <<WithLeaf(g[1], x), g[2], g[3]>>
    ELSE <<g[1], g[2], WithLeaf(g[3], x)>>

RootValue(t) == IF t.root = Nil THEN None ELSE Some(t.heap[t.root].value)

\* the value at the root of before is at the root of t unless it left the tree
RootStays(t, before) ==
    before.root # Nil /\ RootValue(t) # RootValue(before) =>
        /\ before.heap[before.root].value \notin ValuesOf(t)
        /\ call.op \in {"remove", "remove_min", "remove_max"} \cup Consumers

\* C21: an insert of a value that is not in the tree adds one leaf in the
\* empty slot that the compare-and-descend walk reaches and moves nothing:
\* every node that was there keeps its value, its place and its children; so
\* the value at the root stays at the root until it is removed.
C21_InsertAddsLeaf ==
    /\ call.op = "insert" /\ ~Present =>
            /\ Graph(iterative_bst, iterative_bst.root)
                    = WithLeaf(Graph(pre.iterative, pre.iterative.root), call.arg)
            /\ Graph(recursive_bst, recursive_bst.root)
                    = WithLeaf(Graph(pre.recursive, pre.recursive.root), call.arg)
    /\ RootStays(iterative_bst, pre.iterative)
    /\ RootStays(recursive_bst, pre.recursive)

\* a value went in two levels or more below the root of a tree of three or more
C21_Witness ==
    /\ call.op = "insert" /\ ~Present
    /\ pre.iterative.size >= 3
    /\ LET g == Graph(iterative_bst, iterative_bst.root)
       IN  /\ g[2] # call.arg
           /\ GraphAt(g, call.arg) = <<<< >>, call.arg, << >>>>
           /\ (IF call.arg < g[2] THEN g[1] ELSE g[3])[2] # call.arg
    /\ RootValue(iterative_bst) = RootValue(pre.iterative)
    /\ iterative_bst.size = pre.iterative.size + 1

\* the number of edges from the root of graph g down to the node holding x
RECURSIVE Depth(_, _)
Depth(g, x) ==
    IF x = g[2] THEN 0
    ELSE IF x < g[2] THEN 1 + Depth(g[1], x) ELSE 1 + Depth(g[3], x)

RECURSIVE GraphValues(_)
GraphValues(g) ==
    IF g = << >> THEN {} ELSE GraphValues(g[1]) \cup {g[2]} \cup GraphValues(g[3])

\* x is the value of a child of the node of graph g that holds y
IsChildOf(g, x, y) ==
    LET parent == GraphAt(g, y)
    IN  \/ parent[1] # << >> /\ parent[1][2] = x
        \/ parent[3] # << >> /\ parent[3][2] = x

\* seq lists the nodes of search tree g once each, the root first, a node
\* nearer to the root before one further from it and, at the same depth, the
\* one further left (which holds the smaller value) first
LevelOrdered(g, seq) ==
    /\ Len(seq) = GraphSize(g)
    /\ {seq[k] : k \in 1..Len(seq)} = GraphValues(g)
    /\ g # << >> => seq[1] = g[2]
    /\ \A k \in 1..(Len(seq) - 1) :
            \/ Depth(g, seq[k]) < Depth(g, seq[k + 1])
            \/ Depth(g, seq[k]) = Depth(g, seq[k + 1]) /\ seq[k] < seq[k + 1]
    /\ \A j, k \in 1..Len(seq) :
            /\ IsChildOf(g, seq[k], seq[j]) => j < k
            /\ Depth(g, seq[j]) < Depth(g, seq[k]) => j < k

\* the trees that the inserts 4, 6, 2, 7, 5, 3, 1 build
ExampleInserts == <<4, 6, 2, 7, 5, 3, 1>>

ExampleLevelOrder ==
    /\ IterativeBST_level_order_vec(IterativeBST_clone_loop(BST_new, ExampleInserts))
            = <<4, 2, 6, 1, 3, 5, 7>>
    /\ RecursiveBST_level_order_vec(RecursiveBST_clone_loop(BST_new, ExampleInserts))
            = <<4, 2, 6, 1, 3, 5, 7>>

\* C22: level_order_vec() of both engines lists the root first, then the
\* nodes by non-decreasing depth and from left to right within a depth, so a
\* parent comes before its children and after every node of the level above;
\* after the inserts 4, 6, 2, 7, 5, 3, 1 it is [4, 2, 6, 1, 3, 5, 7].
C22_LevelOrder ==
    /\ LevelOrdered(Graph(iterative_bst, iterative_bst.root),
                    IterativeBST_level_order_vec(iterative_bst))
    /\ LevelOrdered(Graph(recursive_bst, recursive_bst.root),
                    RecursiveBST_level_order_vec(recursive_bst))
    /\ call.op = "level_order_vec" =>
            /\ LevelOrdered(Graph(iterative_bst, iterative_bst.root),
                            call.iterative.ret.val)
            /\ LevelOrdered(Graph(recursive_bst, recursive_bst.root),
                            call.recursive.ret.val)
    /\ ExampleLevelOrder

\* level_order_vec() was called on a tree of three levels whose root has two
\* children, and differs from the other three orders
C22_Witness ==
    /\ call.op = "level_order_vec"
    /\ LET g == Graph(recursive_bst, recursive_bst.root)
       IN  /\ g # << >> /\ g[1] # << >> /\ g[3] # << >>
           /\ \E x \in GraphValues(g) : Depth(g, x) = 2
    /\ call.recursive.ret.val # RecursiveBST_pre_order_vec(recursive_bst)
    /\ call.recursive.ret.val # RecursiveBST_in_order_vec(recursive_bst)
    /\ call.iterative.ret.val # IterativeBST_post_order_vec(iterative_bst)
    /\ call.iterative.ret = call.recursive.ret

\* seq holds every value of tree t once and nothing else
ListsEachOnce(t, seq) ==
    /\ Len(seq) = t.size
    /\ {seq[k] : k \in 1..Len(seq)} = ValuesOf(t)
    /\ \A j, k \in 1..Len(seq) : seq[j] = seq[k] => j = k
    /\ t.root = Nil => seq = << >>

\* the sequences have the same elements, each as often in one as in the other
SameElements(seq, other) ==
    /\ Len(seq) = Len(other)
    /\ \A v \in {seq[k] : k \in 1..Len(seq)} \cup {other[k] : k \in 1..Len(other)} :
            Cardinality({k \in 1..Len(seq) : seq[k] = v})
                = Cardinality({k \in 1..Len(other) : other[k] = v})

BorrowingTraversals ==
    {"pre_order_vec", "in_order_vec", "post_order_vec", "level_order_vec"}

\* C23: each of pre_order_vec(), in_order_vec(), post_order_vec() and
\* level_order_vec(), in both engines, returns size() elements that are the
\* values of the tree once each, a permutation of the in-order sequence (empty
\* for the empty tree), and leaves shape, values and size of the tree as
\* they were.
C23_BorrowingTraversals ==
    /\ \A seq \in {IterativeBST_pre_order_vec(iterative_bst),
                    IterativeBST_in_order_vec(iterative_bst),
                    IterativeBST_post_order_vec(iterative_bst),
                    IterativeBST_level_order_vec(iterative_bst)} :
            /\ ListsEachOnce(iterative_bst, seq)
            /\ Len(seq) = IterativeBST_size(iterative_bst)
            /\ SameElements(seq, IterativeBST_in_order_vec(iterative_bst))
    /\ \A seq \in {RecursiveBST_pre_order_vec(recursive_bst),
                    RecursiveBST_in_order_vec(recursive_bst),
                    RecursiveBST_post_order_vec(recursive_bst),
                    RecursiveBST_level_order_vec(recursive_bst)} :
            /\ ListsEachOnce(recursive_bst, seq)
            /\ Len(seq) = RecursiveBST_size(recursive_bst)
            /\ SameElements(seq, RecursiveBST_in_order_vec(recursive_bst))
    /\ call.op \in BorrowingTraversals =>
            /\ ListsEachOnce(pre.iterative, call.iterative.ret.val)
            /\ ListsEachOnce(pre.recursive, call.recursive.ret.val)
            /\ Graph(iterative_bst, iterative_bst.root)
                    = Graph(pre.iterative, pre.iterative.root)
            /\ Graph(recursive_bst, recursive_bst.root)
                    = Graph(pre.recursive, pre.recursive.root)
            /\ iterative_bst.size = pre.iterative.size
            /\ recursive_bst.size = pre.recursive.size

\* post_order_vec() was called on a tree of four or more values whose root
\* has two children and returned something other than the in-order sequence
C23_Witness ==
    /\ call.op = "post_order_vec"
    /\ pre.recursive.size >= 4
    /\ recursive_bst.heap[recursive_bst.root].left # Nil
    /\ recursive_bst.heap[recursive_bst.root].right # Nil
    /\ Len(call.recursive.ret.val) = recursive_bst.size
    /\ call.recursive.ret.val # RecursiveBST_in_order_vec(recursive_bst)
    /\ recursive_bst = pre.recursive

\* log names every box of the set once and no other box
EachBoxOnce(log, boxes) ==
    /\ Len(log) = Cardinality(boxes)
    /\ {log[k] : k \in 1..Len(log)} = boxes

\* the logs of a consuming traversal of tree `before` that yielded `elements`:
\* every value went to the output once, no destructor of a value ran, every
\* box was deallocated once and none is left
DisposedOnce(before, logs, elements, left) ==
    /\ EachBoxOnce(logs.moved, Nodes(before))
    /\ elements = [k \in 1..Len(logs.moved) |-> before.heap[logs.moved[k]].value]
    /\ logs.dropped = << >>
    /\ EachBoxOnce(logs.freed, Nodes(before))
    /\ DOMAIN left.heap = {}

\* C24: in every consuming traversal of both engines, the recursive
\* level-order one with ptr::read and dealloc_boxes included, the value of
\* each node is moved into the output exactly once and is not dropped as well,
\* and each node is deallocated exactly once.
C24_ConsumedOnce ==
    call.op \in Consumers =>
        /\ DisposedOnce(pre.iterative, disposal.iterative,
                        call.iterative.ret.val, iterative_bst)
        /\ DisposedOnce(pre.recursive, disposal.recursive,
                        call.recursive.ret.val, recursive_bst)

\* into_level_order_iter() consumed a tree of four or more nodes and three or
\* more levels
C24_Witness ==
    /\ call.op = "into_level_order_iter"
    /\ pre.recursive.size >= 4
    /\ LongestPath(pre.recursive) >= 2
    /\ Len(disposal.recursive.moved) = pre.recursive.size
    /\ Len(disposal.recursive.freed) = pre.recursive.size
    /\ Len(disposal.iterative.freed) = pre.iterative.size
    /\ Len(call.recursive.ret.val) = pre.recursive.size

\* how often box h is named in the log
Times(log, h) == Cardinality({k \in 1..Len(log) : log[k] = h})

\* every value of the consumed tree `before` left its node once
MovedOnce(before, logs) ==
    \A h \in Nodes(before) : Times(logs.moved, h) = 1

\* the traversal went to every node below the root once, from its parent
EnteredOnce(before, logs) ==
    \A h \in Nodes(before) :
        Times(logs.entered, h) = IF h = before.root THEN 0 ELSE 1

\* write_level_into_vec goes by reference to a node at depth d for each of the
\* levels d .. height, and dealloc_boxes goes to it once more, by value
EnteredPerLevel(before, logs) ==
    LET g == Graph(before, before.root)
    IN  \A h \in Nodes(before) :
            Times(logs.entered, h) =
                IF h = before.root THEN 0
                ELSE LongestPath(before) - Depth(g, before.heap[h].value) + 2

\* C25 as stated: in every consuming traversal of both engines each value is
\* moved out of its node exactly once and the traversal goes to the children
\* of a node no more than once.
C25_ChildrenTraversedOnce ==
    call.op \in Consumers =>
        /\ MovedOnce(pre.iterative, disposal.iterative)
        /\ MovedOnce(pre.recursive, disposal.recursive)
        /\ \A h \in Nodes(pre.iterative) : Times(disposal.iterative.entered, h) <= 1
        /\ \A h \in Nodes(pre.recursive) : Times(disposal.recursive.entered, h) <= 1

\* C25: in every consuming traversal of both engines each value is moved out
\* of its node exactly once; the traversals that own the nodes they walk (all
\* of the iterative engine, pre-, in- and post-order of the recursive one) go
\* to each child once, and the recursive level-order one goes to a node at
\* depth d once for each level d .. height by reference and once more by
\* value to deallocate it.
C25_MovedOnceEnteredPerLevel ==
    call.op \in Consumers =>
        /\ MovedOnce(pre.iterative, disposal.iterative)
        /\ MovedOnce(pre.recursive, disposal.recursive)
        /\ EnteredOnce(pre.iterative, disposal.iterative)
        /\ IF call.op = "into_level_order_iter"
           THEN EnteredPerLevel(pre.recursive, disposal.recursive)
           ELSE EnteredOnce(pre.recursive, disposal.recursive)

\* into_level_order_iter() consumed a tree of three levels: the recursive
\* engine went to a child of the root three times, the iterative one once
C25_Witness ==
    /\ call.op = "into_level_order_iter"
    /\ pre.recursive.root # Nil
    /\ LongestPath(pre.recursive) = 2
    /\ \E h \in Nodes(pre.recursive) :
            /\ Times(disposal.recursive.entered, h) = 3
            /\ Times(disposal.recursive.moved, h) = 1
    /\ \A h \in Nodes(pre.iterative) : Times(disposal.iterative.entered, h) <= 1

\* the number of slots of tree t that hold box h: the root slot and the
\* child slots of the live boxes
ReferencesTo(t, h) ==
    (IF t.root = h THEN 1 ELSE 0)
    + Cardinality({n \in DOMAIN t.heap : t.heap[n].left = h})
    + Cardinality({n \in DOMAIN t.heap : t.heap[n].right = h})

\* the number of paths of at most `steps` links that lead from HeapNode n to box h
RECURSIVE PathsTo(_, _, _, _)
PathsTo(t, n, h, steps) ==
    IF n = Nil \/ n \notin DOMAIN t.heap \/ steps < 0 THEN 0
    ELSE (IF n = h THEN 1 ELSE 0)
         + PathsTo(t, t.heap[n].left, h, steps - 1)
         + PathsTo(t, t.heap[n].right, h, steps - 1)

\* the node graph of t is a tree: every slot holds a live box or nothing,
\* every live box is held by one slot, one path leads from the root to it, and
\* no path leads from a box back to itself
StrictTree(t) ==
    LET boxes == DOMAIN t.heap
        n == Cardinality(boxes)
    IN  /\ t.root \in boxes \cup {Nil}
        /\ \A h \in boxes :
                /\ t.heap[h].left \in boxes \cup {Nil}
                /\ t.heap[h].right \in boxes \cup {Nil}
                /\ ReferencesTo(t, h) = 1
                /\ PathsTo(t, t.root, h, n) = 1
                /\ PathsTo(t, t.heap[h].left, h, n) = 0
                /\ PathsTo(t, t.heap[h].right, h, n) = 0

\* C26: in every reachable state the node graph of either tree is a strict
\* binary tree: each node is held by exactly one slot (the root slot or one
\* child slot of one parent), no node is reached by two paths and there is no
\* cycle; so it is after remove, remove_min and remove_max have taken a node
\* out of its slot and spliced a child in.
C26_StrictTree ==
    /\ StrictTree(iterative_bst)
    /\ StrictTree(recursive_bst)
    /\ StrictTree(pre.iterative)
    /\ StrictTree(pre.recursive)

\* remove() met a node with two children whose successor had a right child,
\* so remove_min took the successor out and put its child in the slot
C26_Witness ==
    /\ RemovedWithTwoChildren
    /\ LET found == GraphAt(Graph(pre.iterative, pre.iterative.root), call.arg)
       IN  /\ found[3][1] = << >>
           /\ found[3][3] # << >>
    /\ iterative_bst.size = pre.iterative.size - 1
    /\ Cardinality(DOMAIN iterative_bst.heap) = pre.iterative.size - 1
    /\ Cardinality(DOMAIN recursive_bst.heap) = pre.recursive.size - 1

\* no node of graph g has a left child
RECURSIVE RightChain(_)
RightChain(g) == g = << >> \/ (g[1] = << >> /\ RightChain(g[3]))

\* the IterativeBST (RecursiveBST) t is a chain to the right of `values`,
\* which are in ascending order: its height is one less than their number and
\* its pre-order and level-order sequences are its in-order sequence
IterativeChain(t, values) ==
    /\ RightChain(Graph(t, t.root))
    /\ IterativeBST_size(t) = Len(values)
    /\ IterativeBST_height(t).ret = Opt(Some(Len(values) - 1))
    /\ IterativeBST_in_order_vec(t) = values
    /\ IterativeBST_pre_order_vec(t) = values
    /\ IterativeBST_level_order_vec(t) = values

RecursiveChain(t, values) ==
    /\ RightChain(Graph(t, t.root))
    /\ RecursiveBST_size(t) = Len(values)
    /\ RecursiveBST_height(t).ret = Opt(Some(Len(values) - 1))
    /\ RecursiveBST_in_order_vec(t) = values
    /\ RecursiveBST_pre_order_vec(t) = values
    /\ RecursiveBST_level_order_vec(t) = values

\* inserting any one or more of the values 1 .. MaxVal in ascending order
\* into an empty tree gives a chain
AscendingInsertsChain ==
    \A S \in (SUBSET Values) \ {{}} :
        /\ IterativeChain(IterativeBST_clone_loop(BST_new, Ascending(S)), Ascending(S))
        /\ RecursiveChain(RecursiveBST_clone_loop(BST_new, Ascending(S)), Ascending(S))

\* the last call put a value greater than all others into a tree that was
\* empty or a chain
InsertedNextInChain ==
    /\ call.op = "insert" /\ ~Present
    /\ RightChain(Graph(pre.iterative, pre.iterative.root))
    /\ \A v \in ValuesOf(pre.iterative) : v < call.arg

\* C27: inserting N >= 1 distinct values in ascending order into an empty
\* tree, which is what clone() does with the in-order sequence of the cloned
\* tree, gives a chain to the right: no node has a left child, height() is
\* Some(N - 1), and pre-order and level-order equal the in-order sequence; so
\* the clone of a tree of N values has height N - 1 whatever the shape of the
\* cloned tree.
C27_AscendingInsertsChain ==
    /\ AscendingInsertsChain
    /\ InsertedNextInChain =>
            /\ IterativeChain(iterative_bst, Ascending(inserted))
            /\ RecursiveChain(recursive_bst, Ascending(inserted))
    /\ iterative_bst.root # Nil =>
            /\ IterativeChain(IterativeBST_clone(iterative_bst),
                              IterativeBST_in_order_vec(iterative_bst))
            /\ RecursiveChain(RecursiveBST_clone(recursive_bst),
                              RecursiveBST_in_order_vec(recursive_bst))
    /\ call.op = "clone" /\ iterative_bst.root # Nil =>
            /\ IterativeChain(IterativeOther, IterativeBST_in_order_vec(iterative_bst))
            /\ RecursiveChain(RecursiveOther, RecursiveBST_in_order_vec(recursive_bst))
            /\ IterativeBST_height(IterativeOther).ret
                    = Opt(Some(IterativeBST_size(iterative_bst) - 1))
            /\ RecursiveBST_height(RecursiveOther).ret
                    = Opt(Some(RecursiveBST_size(recursive_bst) - 1))

\* a tree of three values and height 1 was cloned: the clone has height 2
C27_Witness ==
    /\ call.op = "clone"
    /\ recursive_bst.size = 3
    /\ RecursiveBST_height(recursive_bst).ret = Opt(Some(1))
    /\ RecursiveBST_height(RecursiveOther).ret = Opt(Some(2))
    /\ IterativeBST_height(iterative_bst).ret = Opt(Some(1))
    /\ IterativeBST_height(IterativeOther).ret = Opt(Some(2))

\* the box the cursor of the walk rests on, if any
CursorAt == Read(iterative_bst, walk.root)

\* a cursor walk makes no more iterations than the tree has levels
WalkBounded ==
    walk.op \in CursorWalks =>
        walk.steps <= recursive_height(iterative_bst, iterative_bst.root) + 1

\* a traversal loop handles no node twice, and when the last loop has ended
\* the stacks (the queue) are empty and every node has been handled
HandledOnce ==
    walk.op \in BorrowingLoops \cup ConsumingLoops \cup {"height"} =>
        /\ \A j, k \in 1..Len(walk.handled) :
                walk.handled[j] = walk.handled[k] => j = k
        /\ walk.ended =>
                /\ walk.stack = << >>
                /\ walk.stack_two = << >>
                /\ EachBoxOnce(walk.handled, Nodes(iterative_bst))

\* what the loop has come to when it ends is what the call returns
EndsAsReturned ==
    walk.ended =>
        CASE walk.op = "insert" ->
                (CursorAt = Nil) <=>
                    (iterative_insert(iterative_bst, RootSlot, walk.value).ret = "Ok")
          [] walk.op = "contains" ->
                (CursorAt # Nil) <=> IterativeBST_contains(iterative_bst, walk.value)
          [] walk.op = "retrieve" ->
                (IF CursorAt = Nil THEN None
                 ELSE Some(iterative_bst.heap[CursorAt].value))
                    = IterativeBST_retrieve(iterative_bst, walk.value)
          [] walk.op = "remove" ->
                /\ (CursorAt = Nil) <=>
                        (iterative_remove(iterative_bst, RootSlot, walk.value).ret = "Err")
                /\ walk.loop = 2 =>
                        iterative_bst.heap[CursorAt].value
                            = SetMin({v \in ValuesOf(iterative_bst) : v > walk.value})
          [] walk.op \in {"min", "remove_min"} ->
                (IF CursorAt = Nil THEN None
                 ELSE Some(iterative_bst.heap[CursorAt].value))
                    = IterativeBST_min(iterative_bst)
          [] walk.op \in {"max", "remove_max"} ->
                (IF CursorAt = Nil THEN None
                 ELSE Some(iterative_bst.heap[CursorAt].value))
                    = IterativeBST_max(iterative_bst)
          [] walk.op = "pre_order_vec" ->
                walk.elements = IterativeBST_pre_order_vec(iterative_bst)
          [] walk.op = "in_order_vec" ->
                walk.elements = IterativeBST_in_order_vec(iterative_bst)
          [] walk.op = "post_order_vec" ->
                walk.elements = IterativeBST_post_order_vec(iterative_bst)
          [] walk.op = "level_order_vec" ->
                walk.elements = IterativeBST_level_order_vec(iterative_bst)
          [] walk.op = "height" ->
                IterativeBST_height(iterative_bst).ret
                    = Opt(IF iterative_bst.root = Nil THEN None
                          ELSE Some(walk.height))
          [] walk.op = "into_pre_order_iter" ->
                walk.c = IterativeBST_into_pre_order_iter(iterative_bst)
          [] walk.op = "into_in_order_iter" ->
                walk.c = IterativeBST_into_in_order_iter(iterative_bst)
          [] walk.op = "into_post_order_iter" ->
                walk.c = IterativeBST_into_post_order_iter(iterative_bst)
          [] walk.op = "into_level_order_iter" ->
                walk.c = IterativeBST_into_level_order_iter(iterative_bst)
          [] OTHER -> FALSE

\* C28: every call runs to completion on every tree: the loop of a call in
\* progress ends; the cursor walks of insert, contains, retrieve, remove, min,
\* max, remove_min and remove_max make at most height + 1 iterations; the
\* loops of the borrowing and the consuming traversals and of iterative_height
\* end with the stack or queue empty, each node handled once.
C28_RunsToCompletion ==
    /\ [](WalkBounded /\ HandledOnce /\ EndsAsReturned)
    /\ (walk.op # "-") ~> walk.ended

\* remove() found its value in the root, which has two children, and its
\* second loop went on for one iteration to the least node of the right
\* subtree, in a tree of height 2
C28_Witness ==
    /\ walk.op = "remove"
    /\ walk.ended
    /\ walk.loop = 2
    /\ walk.steps = 2
    /\ recursive_height(iterative_bst, iterative_bst.root) = 2
    /\ iterative_bst.heap[CursorAt].left = Nil
    /\ CursorAt # iterative_bst.heap[iterative_bst.root].right

\* what n calls of remove_min() (remove_max()) in a row return, and the
\* size() after each, starting from tree t
RECURSIVE IterativeRemoveMins(_, _)
IterativeRemoveMins(t, n) ==
    IF n = 0 THEN << >>
    ELSE LET o == IterativeBST_remove_min(t)
         IN  <<[ret |-> o.ret, size |-> IterativeBST_size(o.t)]>>
                \o IterativeRemoveMins(o.t, n - 1)

RECURSIVE RecursiveRemoveMins(_, _)
RecursiveRemoveMins(t, n) ==
    IF n = 0 THEN << >>
    ELSE LET o == RecursiveBST_remove_min(t)
         IN  <<[ret |-> o.ret, size |-> RecursiveBST_size(o.t)]>>
                \o RecursiveRemoveMins(o.t, n - 1)

RECURSIVE IterativeRemoveMaxs(_, _)
IterativeRemoveMaxs(t, n) ==
    IF n = 0 THEN << >>
    ELSE LET o == IterativeBST_remove_max(t)
         IN  <<[ret |-> o.ret, size |-> IterativeBST_size(o.t)]>>
                \o IterativeRemoveMaxs(o.t, n - 1)

RECURSIVE RecursiveRemoveMaxs(_, _)
RecursiveRemoveMaxs(t, n) ==
    IF n = 0 THEN << >>
    ELSE LET o == RecursiveBST_remove_max(t)
         IN  <<[ret |-> o.ret, size |-> RecursiveBST_size(o.t)]>>
                \o RecursiveRemoveMaxs(o.t, n - 1)

Reversed(seq) == [k \in 1..Len(seq) |-> seq[Len(seq) + 1 - k]]

\* the values of `order` one by one with the size going down by one each
\* time, then None with size 0 twice
Drained(order) ==
    [k \in 1..(Len(order) + 2) |->
        IF k <= Len(order)
        THEN [ret |-> Opt(Some(order[k])), size |-> Len(order) - k]
        ELSE [ret |-> Opt(None), size |-> 0]]

StrictlyAscending(seq) == \A k \in 1..(Len(seq) - 1) : seq[k] < seq[k + 1]

\* C29: calling remove_min() again and again on a tree of size n returns its
\* n values in strictly ascending order, size() going down by one each time,
\* and then None with the tree empty; remove_max() does the same in strictly
\* descending order.
C29_DrainInOrder ==
    LET values == Ascending(ValuesOf(iterative_bst))
        n == iterative_bst.size
    IN  /\ Len(values) = n
        /\ StrictlyAscending(values)
        /\ IterativeRemoveMins(iterative_bst, n + 2) = Drained(values)
        /\ RecursiveRemoveMins(recursive_bst, n + 2) = Drained(values)
        /\ IterativeRemoveMaxs(iterative_bst, n + 2) = Drained(Reversed(values))
        /\ RecursiveRemoveMaxs(recursive_bst, n + 2) = Drained(Reversed(values))
        /\ call.op = "remove_min" =>
                LET before == Drained(Ascending(ValuesOf(pre.iterative)))
                IN  /\ call.iterative.ret = before[1].ret
                    /\ call.recursive.ret = before[1].ret
                    /\ IterativeBST_size(iterative_bst) = before[1].size
                    /\ RecursiveBST_size(recursive_bst) = before[1].size
                    /\ IterativeRemoveMins(iterative_bst, 1)[1] = before[2]
                    /\ RecursiveRemoveMins(recursive_bst, 1)[1] = before[2]
        /\ call.op = "remove_max" =>
                LET before == Drained(Reversed(Ascending(ValuesOf(pre.iterative))))
                IN  /\ call.iterative.ret = before[1].ret
                    /\ call.recursive.ret = before[1].ret
                    /\ IterativeBST_size(iterative_bst) = before[1].size
                    /\ RecursiveBST_size(recursive_bst) = before[1].size
                    /\ IterativeRemoveMaxs(iterative_bst, 1)[1] = before[2]
                    /\ RecursiveRemoveMaxs(recursive_bst, 1)[1] = before[2]

\* remove_min() returned the least of four values, from a node below the
\* root, and the next remove_min() will return a greater one
C29_Witness ==
    /\ call.op = "remove_min"
    /\ pre.iterative.size = 4
    /\ pre.iterative.heap[pre.iterative.root].left # Nil
    /\ call.iterative.ret = Opt(Some(SetMin(ValuesOf(pre.iterative))))
    /\ iterative_bst.size = 3
    /\ IterativeBST_remove_min(iterative_bst).ret
            = Opt(Some(SetMin(ValuesOf(iterative_bst))))
    /\ SetMin(ValuesOf(iterative_bst)) > SetMin(ValuesOf(pre.iterative))

\* IterativeBST (RecursiveBST) t is what `before` was: same nodes in the same
\* places, same size(), same four traversals
IterativeSame(t, before) ==
    /\ Untouched(t, before)
    /\ IterativeBST_size(t) = IterativeBST_size(before)
    /\ IterativeBST_pre_order_vec(t) = IterativeBST_pre_order_vec(before)
    /\ IterativeBST_in_order_vec(t) = IterativeBST_in_order_vec(before)
    /\ IterativeBST_post_order_vec(t) = IterativeBST_post_order_vec(before)
    /\ IterativeBST_level_order_vec(t) = IterativeBST_level_order_vec(before)

RecursiveSame(t, before) ==
    /\ Untouched(t, before)
    /\ RecursiveBST_size(t) = RecursiveBST_size(before)
    /\ RecursiveBST_pre_order_vec(t) = RecursiveBST_pre_order_vec(before)
    /\ RecursiveBST_in_order_vec(t) = RecursiveBST_in_order_vec(before)
    /\ RecursiveBST_post_order_vec(t) = RecursiveBST_post_order_vec(before)
    /\ RecursiveBST_level_order_vec(t) = RecursiveBST_level_order_vec(before)

\* C30: for a value x that is not in the tree, insert(x) followed at once by
\* remove(x) gives back the tree as it was: same shape, same values in the
\* same places, the four traversals and size() unchanged.
C30_InsertThenRemove ==
    /\ \A x \in Values \ ValuesOf(iterative_bst) :
            /\ IterativeSame(
                    IterativeBST_remove(IterativeBST_insert(iterative_bst, x).t, x).t,
                    iterative_bst)
            /\ RecursiveSame(
                    RecursiveBST_remove(RecursiveBST_insert(recursive_bst, x).t, x).t,
                    recursive_bst)
    /\ call.op = "insert" /\ ~Present =>
            /\ IterativeBST_remove(iterative_bst, call.arg).signal = "Ok"
            /\ RecursiveBST_remove(recursive_bst, call.arg).signal = "Ok"
            /\ IterativeSame(IterativeBST_remove(iterative_bst, call.arg).t,
                             pre.iterative)
            /\ RecursiveSame(RecursiveBST_remove(recursive_bst, call.arg).t,
                             pre.recursive)
    /\ call.op = "remove" /\ Present
            /\ Graph(pre.iterative, pre.iterative.root)
                    = WithLeaf(Graph(iterative_bst, iterative_bst.root), call.arg) =>
            /\ IterativeSame(IterativeBST_insert(iterative_bst, call.arg).t,
                             pre.iterative)
            /\ RecursiveSame(RecursiveBST_insert(recursive_bst, call.arg).t,
                             pre.recursive)

\* remove(x) took out what insert(x) into the tree as it is now puts in: a
\* leaf two levels or more below the root of a tree of four
C30_Witness ==
    /\ call.op = "remove" /\ Present
    /\ pre.iterative.size = 4
    /\ LET g == Graph(pre.iterative, pre.iterative.root)
       IN  /\ g = WithLeaf(Graph(iterative_bst, iterative_bst.root), call.arg)
           /\ Depth(g, call.arg) >= 2
    /\ iterative_bst.size = 3
    /\ IterativeBST_insert(iterative_bst, call.arg).t.size = 4

====
